---- MODULE Spec2Model ----
(***************************************************************************)
(* Part-number codec and Voron Trident frame classifier of the             *)
(* extrusion_decoder package.  Python strings are TLA+ strings; Len, \o    *)
(* and SubSeq act on them character by character.  The strings the        *)
(* program prints are sequences of code points.  An optional value        *)
(* (Python None or a value) is the empty tuple or a one-element tuple.     *)
(* The variable table holds the contents of the module-level dict          *)
(* ALTERATION_CODES of decoder.py, the one object the calls share.         *)
(***************************************************************************)
EXTENDS Integers, Sequences, FiniteSets, TLC

VARIABLES pc, table, alt_code, alt_ret, build_volume, specs, role, enc_args,
          part_number, decoded, quantity, letter, text,
          supported, legacy_letter, rebuilt, bom_parts, detected_size, sort_keys, lines

vars == <<pc, table, alt_code, alt_ret, build_volume, specs, role, enc_args,
          part_number, decoded, quantity, letter, text,
          supported, legacy_letter, rebuilt, bom_parts, detected_size, sort_keys, lines>>

---------------------------------------------------------------------------
(* Python values *)

None == <<>>

Some(v) == <<v>>

UpperLetters == {"A", "B", "C", "D", "E", "F", "G", "H", "I", "J", "K", "L", "M",
                 "N", "O", "P", "Q", "R", "S", "T", "U", "V", "W", "X", "Y", "Z"}

Digits == {"0", "1", "2", "3", "4", "5", "6", "7", "8", "9"}

(* the characters int() strips from both ends of a str: space, \t, \n,   *)
(* \r, \f and, written as themselves, the vertical tab U+000B, the next  *)
(* line U+0085 and the no-break space U+00A0                              *)
Whitespace == {" ", "\t", "\n", "\r", "\f", "", "", " "}

CharAt(s, i) == SubSeq(s, i, i)

(* s[i:] with a 0-based, non-negative i *)
SliceFrom(s, i) == SubSeq(s, i + 1, Len(s))

(* s[i:j] with 0-based, non-negative i and j *)
Slice(s, i, j) == SubSeq(s, i + 1, IF j < Len(s) THEN j ELSE Len(s))

StartsWith(s, p) == Len(s) >= Len(p) /\ SubSeq(s, 1, Len(p)) = p

Contains(seq, x) == \E i \in 1..Len(seq) : seq[i] = x

RECURSIVE Span(_, _)
(* length of the longest prefix of s made of characters of the set chars *)
Span(s, chars) ==
    IF Len(s) > 0 /\ CharAt(s, 1) \in chars
    THEN 1 + Span(SliceFrom(s, 1), chars)
    ELSE 0

RECURSIVE Split(_, _)
(* str.split(sep) for a one-character separator *)
Split(s, sep) ==
    LET n == Span(s, {CharAt(s, i) : i \in 1..Len(s)} \ {sep})
    IN  IF n = Len(s)
        THEN <<s>>
        ELSE <<SubSeq(s, 1, n)>> \o Split(SliceFrom(s, n + 1), sep)

RECURSIVE Join(_, _)
(* sep.join(parts) *)
Join(parts, sep) ==
    IF Len(parts) = 0 THEN ""
    ELSE IF Len(parts) = 1 THEN parts[1]
    ELSE parts[1] \o sep \o Join(Tail(parts), sep)

(* The strings the program prints hold characters above U+00FF, which a   *)
(* string of this module cannot.  A printed str is therefore a text: the  *)
(* sequence of its code points.  Latin1Low and Latin1High list the        *)
(* characters U+0001..U+005F and U+0061..U+00FF in code point order.      *)
Latin1Low ==
    "\t\n\f\r"
    \o " !\"#$%&'()*+,-./0123456789:;<=>?"
    \o "@ABCDEFGHIJKLMNOPQRSTUVWXYZ[\\]^_"

Latin1High ==
    "abcdefghijklmnopqrstuvwxyz{|}~"
    \o " ¡¢£¤¥¦§¨©ª«¬­®¯°±²³´µ¶·¸¹º»¼½¾¿"
    \o "ÀÁÂÃÄÅÆÇÈÉÊËÌÍÎÏÐÑÒÓÔÕÖ×ØÙÚÛÜÝÞßàáâãäåæçèéêëìíîïðñòóôõö÷øùúûüýþÿ"

(* chr(n) for the code points a string of this module can hold *)
chr ==
    [n \in (1..95) \cup (97..255) |->
        IF n < 96 THEN CharAt(Latin1Low, n) ELSE CharAt(Latin1High, n - 96)]

(* ord(c) *)
ord == [c \in {chr[n] : n \in DOMAIN chr} |-> CHOOSE n \in DOMAIN chr : chr[n] = c]

(* the text of a str: [ord(c) for c in s] *)
Codes(s) == [i \in 1..Len(s) |-> ord[CharAt(s, i)]]

(* the str of a text of code points below 256 *)
RECURSIVE Str(_)
Str(t) == IF t = <<>> THEN "" ELSE chr[Head(t)] \o Str(Tail(t))

RECURSIVE JoinText(_, _)
(* sep.join(parts) for texts *)
JoinText(parts, sep) ==
    IF Len(parts) = 0 THEN <<>>
    ELSE IF Len(parts) = 1 THEN parts[1]
    ELSE parts[1] \o sep \o JoinText(Tail(parts), sep)

DigitValue(c) ==
    CASE c = "0" -> 0 [] c = "1" -> 1 [] c = "2" -> 2 [] c = "3" -> 3
      [] c = "4" -> 4 [] c = "5" -> 5 [] c = "6" -> 6 [] c = "7" -> 7
      [] c = "8" -> 8 [] c = "9" -> 9

DigitChar(d) ==
    CASE d = 0 -> "0" [] d = 1 -> "1" [] d = 2 -> "2" [] d = 3 -> "3"
      [] d = 4 -> "4" [] d = 5 -> "5" [] d = 6 -> "6" [] d = 7 -> "7"
      [] d = 8 -> "8" [] d = 9 -> "9"

RECURSIVE NatStr(_)
NatStr(n) == IF n < 10 THEN DigitChar(n) ELSE NatStr(n \div 10) \o DigitChar(n % 10)

(* str(n) of a Python int *)
PyStr(n) == IF n < 0 THEN "-" \o NatStr(0 - n) ELSE NatStr(n)

RECURSIVE Strip(_)
(* s without the leading and trailing whitespace that int() ignores *)
Strip(s) ==
    IF Len(s) > 0 /\ CharAt(s, 1) \in Whitespace THEN Strip(SliceFrom(s, 1))
    ELSE IF Len(s) > 0 /\ CharAt(s, Len(s)) \in Whitespace THEN Strip(SubSeq(s, 1, Len(s) - 1))
    ELSE s

RECURSIVE DigitsValue(_, _)
(* value of a digit string with "_" separators, accumulated left to right *)
DigitsValue(s, acc) ==
    IF Len(s) = 0 THEN acc
    ELSE IF CharAt(s, 1) = "_" THEN DigitsValue(SliceFrom(s, 1), acc)
    ELSE DigitsValue(SliceFrom(s, 1), 10 * acc + DigitValue(CharAt(s, 1)))

(* the digit part of an int literal: digits, single "_" only between digits *)
IsDigitPart(s) ==
    /\ Len(s) > 0
    /\ \A i \in 1..Len(s) : CharAt(s, i) \in Digits \cup {"_"}
    /\ \A i \in 1..Len(s) : CharAt(s, i) = "_" =>
          /\ i > 1 /\ CharAt(s, i - 1) \in Digits
          /\ i < Len(s) /\ CharAt(s, i + 1) \in Digits

(* s without surrounding whitespace and without a leading sign *)
IntBody(s) ==
    LET t == Strip(s)
    IN  IF Len(t) > 0 /\ CharAt(t, 1) \in {"+", "-"} THEN SliceFrom(t, 1) ELSE t

(* the most digits int() converts: longer digit strings raise ValueError *)
(* (sys.int_info.default_max_str_digits of CPython 3.11)                  *)
MaxStrDigits == 4300

DigitCount(s) == Cardinality({i \in 1..Len(s) : CharAt(s, i) \in Digits})

(* body is a digit part of no more than MaxStrDigits digits; the "_"     *)
(* separators do not count                                                *)
IsIntBody(body) ==
    /\ IsDigitPart(body)
    /\ IF Len(body) <= MaxStrDigits THEN TRUE ELSE DigitCount(body) <= MaxStrDigits

(* int(s) succeeds for the str s; otherwise it raises ValueError *)
IsInt(s) == IsIntBody(IntBody(s))

(* int(s) for a str s with IsInt(s) *)
PyInt(s) ==
    LET t == Strip(s)
    IN  IF CharAt(t, 1) = "-" THEN 0 - DigitsValue(IntBody(s), 0) ELSE DigitsValue(IntBody(s), 0)

---------------------------------------------------------------------------
(* decoder.py *)

ALTERATION_CODES ==
    [
       LTP |-> "Left End Tapping (Center Hole)",
       RTP |-> "Right End Tapping (Center Hole)",
       TPM |-> "End Tapping (Center Hole)",
       TPW |-> "End Tapping (Center Hole, Both Sides, Heli-Coil Insert)",
       LHP |-> "Left End Tapping (Center Hole)",
       RHP |-> "Right End Tapping (Center Hole)",
       HPW |-> "End Tapping (Center Hole, Heli-Coil Insert)",
       LSP |-> "Left End Tapping (4 Side Holes)",
       RSP |-> "Right End Tapping (4 Side Holes)",
       SPW |-> "End Tapping (4 Side Holes)",
       SC |-> "High Precision Cut (L=0.2 tolerance)",
       L_T45 |-> "Left 45-Degree Cut",
       R_T45 |-> "Right 45-Degree Cut",
       LCH |-> "Left Wrench Access Hole (1 Slot, Horizontal)",
       LCV |-> "Left Wrench Access Hole (1 Slot, Vertical)",
       LCP |-> "Left Wrench Access Hole (1 Slot, Crisscross)",
       RCH |-> "Right Wrench Access Hole (1 Slot, Horizontal)",
       RCV |-> "Right Wrench Access Hole (1 Slot, Vertical)",
       RCP |-> "Right Wrench Access Hole (1 Slot, Crisscross)",
       LWH |-> "Left Wrench Access Hole (2 Slots, Horizontal)",
       LWV |-> "Left Wrench Access Hole (2 Slots, Vertical)",
       LWP |-> "Left Wrench Access Hole (2 Slots, Crisscross)",
       RWH |-> "Right Wrench Access Hole (2 Slots, Horizontal)",
       RWV |-> "Right Wrench Access Hole (2 Slots, Vertical)",
       RWP |-> "Right Wrench Access Hole (2 Slots, Crisscross)",
       LEH |-> "Left Wrench Access Hole (3 Slots, Horizontal)",
       LEV |-> "Left Wrench Access Hole (3 Slots, Vertical)",
       LEP |-> "Left Wrench Access Hole (3 Slots, Crisscross)",
       REH |-> "Right Wrench Access Hole (3 Slots, Horizontal)",
       REV |-> "Right Wrench Access Hole (3 Slots, Vertical)",
       REP |-> "Right Wrench Access Hole (3 Slots, Crisscross)",
       RWIP |-> "Right Wrench Hole in Fixed Position",
       X5 |-> "Wrench Hole Diameter Specification (5mm)",
       X8 |-> "Wrench Hole Diameter Specification (8mm)",
       FL |-> "Extrusion End Caps Hole Position Change (Left, for 3mm cap)",
       FR |-> "Extrusion End Caps Hole Position Change (Right, for 3mm cap)",
       AH |-> "Wrench Hole in Specified Position (Horizontal, A position)",
       BH |-> "Wrench Hole in Specified Position (Horizontal, B position)",
       CH |-> "Wrench Hole in Specified Position (Horizontal, C position)",
       DH |-> "Wrench Hole in Specified Position (Horizontal, D position)",
       EH |-> "Wrench Hole in Specified Position (Horizontal, E position)",
       AV |-> "Wrench Hole in Specified Position (Vertical, A position)",
       BV |-> "Wrench Hole in Specified Position (Vertical, B position)",
       CV |-> "Wrench Hole in Specified Position (Vertical, C position)",
       DV |-> "Wrench Hole in Specified Position (Vertical, D position)",
       EV |-> "Wrench Hole in Specified Position (Vertical, E position)",
       AP |-> "Wrench Hole in Specified Position (Crisscross, A position)",
       BP |-> "Wrench Hole in Specified Position (Crisscross, B position)",
       CP |-> "Wrench Hole in Specified Position (Crisscross, C position)",
       DP |-> "Wrench Hole in Specified Position (Crisscross, D position)",
       EP |-> "Wrench Hole in Specified Position (Crisscross, E position)",
       Z5 |-> "Counterbore in Specified Position (Z5, d=5.5mm)",
       Z6 |-> "Counterbore in Specified Position (Z6, d=6.5mm)",
       Z8 |-> "Counterbore in Specified Position (Z8, d=9mm)",
       Z12 |-> "Counterbore in Specified Position (Z12, d=13mm)",
       XA |-> "Counterbore (Top to Bottom, Vertical, A position)",
       XB |-> "Counterbore (Top to Bottom, Vertical, B position)",
       XC |-> "Counterbore (Top to Bottom, Vertical, C position)",
       XD |-> "Counterbore (Top to Bottom, Vertical, D position)",
       XE |-> "Counterbore (Top to Bottom, Vertical, E position)",
       YA |-> "Counterbore (Right to Left, Horizontal, A position)",
       YB |-> "Counterbore (Right to Left, Horizontal, B position)",
       YC |-> "Counterbore (Right to Left, Horizontal, C position)",
       YD |-> "Counterbore (Right to Left, Horizontal, D position)",
       YE |-> "Counterbore (Right to Left, Horizontal, E position)",
       LDH |-> "Left D Hole (Horizontal on Left End, Pre-Assembly Insertion Double Joint)",
       LDV |-> "Left D Hole (Vertical on Left End, Pre-Assembly Insertion Double Joint)",
       RDH |-> "Right D Hole (Horizontal on Right End, Pre-Assembly Insertion Double Joint)",
       RDV |-> "Right D Hole (Vertical on Right End, Pre-Assembly Insertion Double Joint)",
       LSH |-> "Left S Hole (Horizontal on Left End, Post-Assembly Insertion Double Joint, Center Joint)",
       LSV |-> "Left S Hole (Vertical on Left End, Post-Assembly Insertion Double Joint, Center Joint)",
       RSH |-> "Right S Hole (Horizontal on Right End, Post-Assembly Insertion Double Joint, Center Joint)",
       RSV |-> "Right S Hole (Vertical on Right End, Post-Assembly Insertion Double Joint, Center Joint)",
       LMH |-> "Left M Hole (Post-Assembly Insertion Double Joint, Post Connection)",
       RMH |-> "Right M Hole (Horizontal on Right End, Post-Assembly Insertion Double Joint, Post Connection)",
       JLP |-> "L Hole (Crisscross on Top, Parallel Joint)",
       KLP |-> "L Hole (Crisscross on Bottom, Parallel Joint)",
       LTS |-> "Left End Tapping (GFS/HFSR Series)",
       RTS |-> "Right End Tapping (GFS/HFSR Series)",
       TSW |-> "End Tapping (GFS/HFSR Series)",
       CW |-> "End Face C Chamfering",
       ZZZ |-> "Labeling (Serial Number)",
       LL |-> "Labeling (Unit Number)"
    ]

(* a base-code list that lacks the counterbore positions *)
PositionCodesWithoutCounterbores ==
    {"AV", "BV", "CV", "DV", "EV", "AH", "BH", "CH", "DH", "EH",
     "AP", "BP", "CP", "DP", "EP"}

PositionCodes == {"AV", "BV", "CV", "DV", "EV", "AH", "BH", "CH", "DH", "EH",
                  "AP", "BP", "CP", "DP", "EP", "XA", "XB", "XC", "XD", "XE",
                  "YA", "YB", "YC", "YD", "YE"}

(* the match that takes a table code ending in digits for the base *)
SuffixMatch_table_base(c) ==
    LET nb == Span(c, UpperLetters)
        rest == SliceFrom(c, nb)
        nd == Span(rest, Digits)
        tail == SliceFrom(rest, nd)
        cut == IF \E k \in (nb + 1)..(nb + nd - 1) : SubSeq(c, 1, k) \in DOMAIN ALTERATION_CODES
               THEN CHOOSE k \in (nb + 1)..(nb + nd - 1) :
                        /\ SubSeq(c, 1, k) \in DOMAIN ALTERATION_CODES
                        /\ \A j \in (k + 1)..(nb + nd - 1) : SubSeq(c, 1, j) \notin DOMAIN ALTERATION_CODES
               ELSE nb
    IN  [matched |-> nb >= 1 /\ nd >= 1 /\ tail \in {"", "\n"},
         base_code |-> SubSeq(c, 1, cut),
         numeric_value |-> SubSeq(c, cut + 1, nb + nd)]

(* re.match(r"^([A-Z]+)(\d+)$", code): "$" also matches before one final newline *)
SuffixMatch(c) ==
    LET nb == Span(c, UpperLetters)
        rest == SliceFrom(c, nb)
        nd == Span(rest, Digits)
        tail == SliceFrom(rest, nd)
    IN  [matched |-> nb >= 1 /\ nd >= 1 /\ tail \in {"", "\n"},
         base_code |-> SubSeq(c, 1, nb),
         numeric_value |-> SubSeq(rest, 1, nd)]

(* the suffix branch that forgets the digits of a code without a category *)
parse_suffixed_dropping_value(base_code, numeric_value) ==
    IF base_code \in DOMAIN ALTERATION_CODES
    THEN LET description == ALTERATION_CODES[base_code]
         IN  IF base_code \in PositionCodes
             THEN <<description, Some(numeric_value \o "mm from left end")>>
             ELSE IF base_code \in {"JLP", "KLP"}
             THEN <<description, Some("Hole pitch: " \o numeric_value \o "mm")>>
             ELSE IF base_code = "ZZZ"
             THEN <<description, Some("Serial: " \o numeric_value)>>
             ELSE IF base_code = "LL"
             THEN <<description, Some("Unit: " \o numeric_value)>>
             ELSE <<description, None>>
    ELSE <<"Unknown alteration code: " \o base_code, Some(numeric_value)>>

(* the suffix branch that names the whole token when the base is unknown *)
parse_suffixed_naming_token(base_code, numeric_value) ==
    IF base_code \in DOMAIN ALTERATION_CODES
    THEN LET description == ALTERATION_CODES[base_code]
         IN  IF base_code \in PositionCodes
             THEN <<description, Some(numeric_value \o "mm from left end")>>
             ELSE IF base_code \in {"JLP", "KLP"}
             THEN <<description, Some("Hole pitch: " \o numeric_value \o "mm")>>
             ELSE IF base_code = "ZZZ"
             THEN <<description, Some("Serial: " \o numeric_value)>>
             ELSE IF base_code = "LL"
             THEN <<description, Some("Unit: " \o numeric_value)>>
             ELSE <<description, Some(numeric_value)>>
    ELSE <<"Unknown alteration code: " \o base_code \o numeric_value, Some(numeric_value)>>

(* the body of `if match:` in parse_alteration_code *)
parse_suffixed(base_code, numeric_value) ==
    IF base_code \in DOMAIN ALTERATION_CODES
    THEN LET description == ALTERATION_CODES[base_code]
         IN  IF base_code \in PositionCodes
             THEN <<description, Some(numeric_value \o "mm from left end")>>
             ELSE IF base_code \in {"JLP", "KLP"}
             THEN <<description, Some("Hole pitch: " \o numeric_value \o "mm")>>
             ELSE IF base_code = "ZZZ"
             THEN <<description, Some("Serial: " \o numeric_value)>>
             ELSE IF base_code = "LL"
             THEN <<description, Some("Unit: " \o numeric_value)>>
             ELSE <<description, Some(numeric_value)>>
    ELSE <<"Unknown alteration code: " \o base_code, Some(numeric_value)>>

(* parse_alteration_code that tries the suffix decomposition before the table *)
parse_alteration_code_suffix_first(c) ==
    LET m == SuffixMatch(c)
    IN  IF m.matched THEN parse_suffixed(m.base_code, m.numeric_value)
        ELSE IF c \in DOMAIN ALTERATION_CODES THEN <<ALTERATION_CODES[c], None>>
        ELSE <<"Unknown alteration code: " \o c, None>>

parse_alteration_code(c) ==
    IF c \in DOMAIN ALTERATION_CODES THEN <<ALTERATION_CODES[c], None>>
    ELSE LET m == SuffixMatch(c)
         IN  IF m.matched THEN parse_suffixed(m.base_code, m.numeric_value)
             ELSE <<"Unknown alteration code: " \o c, None>>

(* parse_size whose second dimension of a 4-character code is the second pair *)
parse_size_second_pair(size_str) ==
    IF Len(size_str) = 4
    THEN Slice(size_str, 0, 2) \o "mm × " \o Slice(size_str, 2, 4) \o "mm"
    ELSE IF Len(size_str) = 6
    THEN LET dim1 == Slice(size_str, 0, 2)
             dim2 == Slice(size_str, 2, 4)
             dim3 == Slice(size_str, 4, 6)
         IN  dim1 \o "mm × " \o dim2 \o "mm × " \o dim3 \o "mm"
    ELSE size_str \o " (custom size)"

parse_size(size_str) ==
    IF Len(size_str) = 4
    THEN LET dim == Slice(size_str, 0, 2)
         IN  dim \o "mm × " \o dim \o "mm"
    ELSE IF Len(size_str) = 6
    THEN LET dim1 == Slice(size_str, 0, 2)
             dim2 == Slice(size_str, 2, 4)
             dim3 == Slice(size_str, 4, 6)
         IN  dim1 \o "mm × " \o dim2 \o "mm × " \o dim3 \o "mm"
    ELSE size_str \o " (custom size)"

(* parse_length that appends the unit to whatever it is given *)
parse_length_always_mm(length_str) ==
    IF IsInt(length_str) THEN PyStr(PyInt(length_str)) \o "mm" ELSE length_str \o "mm"

parse_length(length_str) ==
    IF IsInt(length_str) THEN PyStr(PyInt(length_str)) \o "mm" ELSE length_str

(* the loop body that formats the value without testing it *)
describe_alteration_untested(c) ==
    LET r == parse_alteration_code(c)
        desc == r[1]
        value == r[2]
    IN  desc \o " (" \o (IF value = None THEN "None" ELSE value[1]) \o ")"

(* one pass of the loop of decode_misumi_name over the alteration codes *)
describe_alteration(c) ==
    LET r == parse_alteration_code(c)
        desc == r[1]
        value == r[2]
    IN  IF value # None /\ value[1] # ""
        THEN desc \o " (" \o value[1] \o ")"
        ELSE desc

(* a length test that also rejects exactly three parts *)
too_few_parts_off_by_one(parts) == Len(parts) <= 3

(* `if len(parts) < 3` *)
too_few_parts(parts) == Len(parts) < 3

(* an alteration slice that starts one part too late *)
alterations_of_off_by_one(parts) == IF Len(parts) > 3 THEN SubSeq(parts, 5, Len(parts)) ELSE <<>>

(* `parts[3:] if len(parts) > 3 else []` *)
alterations_of(parts) == IF Len(parts) > 3 THEN SubSeq(parts, 4, Len(parts)) ELSE <<>>

decode_misumi_name(pn) ==
    LET parts == Split(pn, "-")
    IN  IF too_few_parts(parts)
        THEN [error |-> "Invalid part number format. Expected at least 3 parts separated by hyphens, got: " \o pn]
        ELSE LET series == parts[1]
                 size == parts[2]
                 length == parts[3]
                 alterations == alterations_of(parts)
             IN  [part_number |-> pn,
                  series |-> series,
                  size |-> parse_size(size),
                  size_raw |-> size,
                  length |-> parse_length(length),
                  length_raw |-> length,
                  alterations |-> alterations,
                  alteration_descriptions |->
                      [i \in 1..Len(alterations) |-> describe_alteration(alterations[i])]]

(* the bullet that starts a line of the alteration list: U+2022 *)
Bullet == <<8226>>

(* format_description that prints the list header for an empty list too *)
format_description_always_listing(d) ==
    IF "error" \in DOMAIN d THEN Codes("Error: " \o d.error)
    ELSE JoinText(<< Codes("MISUMI Extrusion: " \o d.part_number),
                     Codes("  Series: " \o d.series),
                     Codes("  Size: " \o d.size),
                     Codes("  Length: " \o d.length) >>
                  \o <<Codes("  Alterations:")>>
                  \o [i \in 1..Len(d.alteration_descriptions) |->
                          Codes("    ") \o Bullet \o Codes(" " \o d.alteration_descriptions[i])],
                  Codes("\n"))

(* the text format_description returns *)
format_description(d) ==
    IF "error" \in DOMAIN d THEN Codes("Error: " \o d.error)
    ELSE JoinText(<< Codes("MISUMI Extrusion: " \o d.part_number),
                     Codes("  Series: " \o d.series),
                     Codes("  Size: " \o d.size),
                     Codes("  Length: " \o d.length) >>
                  \o (IF Len(d.alterations) > 0
                      THEN <<Codes("  Alterations:")>>
                           \o [i \in 1..Len(d.alteration_descriptions) |->
                                   Codes("    ") \o Bullet
                                       \o Codes(" " \o d.alteration_descriptions[i])]
                      ELSE <<Codes("  Alterations: None")>>),
                  Codes("\n"))

(* "c" * n *)
RECURSIVE Repeat(_, _)
Repeat(c, n) == IF n = 0 THEN "" ELSE c \o Repeat(c, n - 1)

(* the concatenation of a sequence of sequences *)
RECURSIVE Flatten(_)
Flatten(blocks) == IF blocks = <<>> THEN <<>> ELSE Head(blocks) \o Flatten(Tail(blocks))

(* bom_part_lines that prints nothing about a part that failed to decode *)
bom_part_lines_without_error(i, part, decoded_part) ==
    << Codes("[" \o PyStr(i) \o "] Qty: " \o part.quantity),
       Codes("     Part Number: " \o part.part_number) >>
    \o (IF ~("error" \in DOMAIN decoded_part)
        THEN << Codes("     Series: " \o decoded_part.series),
                Codes("     Size: " \o decoded_part.size),
                Codes("     Length: " \o decoded_part.length) >>
             \o (IF Len(decoded_part.alterations) > 0
                 THEN <<Codes("     Alterations:")>>
                      \o [k \in 1..Len(decoded_part.alteration_descriptions) |->
                              Codes("       ") \o Bullet
                                  \o Codes(" " \o decoded_part.alteration_descriptions[k])]
                 ELSE <<Codes("     Alterations: None")>>)
        ELSE <<>>)
    \o <<Codes("")>>

(* the lines format_bom_output appends for the i-th part of the list,    *)
(* each a text; decoded_part: decode_misumi_name(part["part_number"])      *)
bom_part_lines(i, part, decoded_part) ==
    << Codes("[" \o PyStr(i) \o "] Qty: " \o part.quantity),
       Codes("     Part Number: " \o part.part_number) >>
    \o (IF ~("error" \in DOMAIN decoded_part)
        THEN << Codes("     Series: " \o decoded_part.series),
                Codes("     Size: " \o decoded_part.size),
                Codes("     Length: " \o decoded_part.length) >>
             \o (IF Len(decoded_part.alterations) > 0
                 THEN <<Codes("     Alterations:")>>
                      \o [k \in 1..Len(decoded_part.alteration_descriptions) |->
                              Codes("       ") \o Bullet
                                  \o Codes(" " \o decoded_part.alteration_descriptions[k])]
                 ELSE <<Codes("     Alterations: None")>>)
        ELSE <<Codes("     Error: " \o decoded_part.error)>>)
    \o <<Codes("")>>

(* the list `lines` of format_bom_output at its return; bom: a list of   *)
(* parts [part_number, quantity], or the one-element list [error]        *)
format_bom_output_lines(bom) ==
    IF bom = <<>> \/ "error" \in DOMAIN bom[1] THEN <<>>
    ELSE << Codes(Repeat("=", 70)), Codes("MISUMI Parts from BOM"),
            Codes(Repeat("=", 70)), Codes("") >>
         \o Flatten([i \in 1..Len(bom) |->
                       bom_part_lines(i, bom[i], decode_misumi_name(bom[i].part_number))])

(* the text a report returns: the early returns, or its lines joined *)
report_text(bom, report_lines) ==
    IF bom = <<>> THEN Codes("No MISUMI parts found in BOM.")
    ELSE IF "error" \in DOMAIN bom[1] THEN Codes("Error: " \o bom[1].error)
    ELSE JoinText(report_lines, Codes("\n"))

format_bom_output(bom) == report_text(bom, format_bom_output_lines(bom))

(* The contents of the dict ALTERATION_CODES after a call, t being its   *)
(* contents before.  parse_alteration_code looks codes up with `in` and   *)
(* `[]` and has no statement that stores into the dict, deletes from it   *)
(* or rebinds the name; no other function names the dict.                 *)

(* parse_alteration_code that stores the description it found under the  *)
(* code it was called with                                                *)
table_after_memoising_parse(t, code) ==
    [c \in DOMAIN t \cup {code} |->
        IF c = code THEN parse_alteration_code(code)[1] ELSE t[c]]

table_after_parse_alteration_code(t, code) == t

(* the loop of decode_misumi_name over the alteration tokens *)
RECURSIVE table_after_alterations(_, _)
table_after_alterations(t, alterations) ==
    IF alterations = <<>> THEN t
    ELSE table_after_alterations(table_after_parse_alteration_code(t, Head(alterations)),
                                 Tail(alterations))

(* decoded_part: the result of the call of decode_misumi_name; the call  *)
(* returns an error before it parses any token                            *)
table_after_decode_misumi_name(t, decoded_part) ==
    IF "error" \in DOMAIN decoded_part THEN t
    ELSE table_after_alterations(t, decoded_part.alterations)

(* ds: the results of decode_misumi_name on the parts a report or the    *)
(* build size detection decodes, in the order of the calls               *)
RECURSIVE table_after_parts(_, _)
table_after_parts(t, ds) ==
    IF ds = <<>> THEN t
    ELSE table_after_parts(table_after_decode_misumi_name(t, Head(ds)), Tail(ds))

---------------------------------------------------------------------------
(* makers/misumi.py *)

(* encode_part_number that leaves the alteration codes out *)
encode_part_number_without_alterations(series, size, length, alterations) ==
    Join(<<series, size, PyStr(length)>>, "-")

(* alterations is a list or None; None and the empty list are both <<>> *)
encode_part_number(series, size, length, alterations) ==
    LET parts == <<series, size, PyStr(length)>>
    IN  Join(IF Len(alterations) > 0 THEN parts \o alterations ELSE parts, "-")

(* encode_part_number on raw fields that skips empty alteration tokens *)
encode_part_number_raw_skipping_empty(series, size, length, alterations) ==
    Join(<<series, size, length>> \o SelectSeq(alterations, LAMBDA a : a # ""), "-")

(* encode_part_number given the length as a string, as when the raw fields *)
(* of a decoded part are passed: str() of a string is the string itself    *)
encode_part_number_raw(series, size, length, alterations) ==
    LET parts == <<series, size, length>>
    IN  Join(IF Len(alterations) > 0 THEN parts \o alterations ELSE parts, "-")

---------------------------------------------------------------------------
(* printers/base.py, printers/trident.py *)

(* name: None or Some(str) *)
BuildVolume(x, y, z, name) ==
    [x |-> x, y |-> y, z |-> z,
     name |-> IF name # None /\ name[1] # "" THEN name[1]
              ELSE PyStr(x) \o "x" \o PyStr(y) \o "x" \o PyStr(z)]

(* ExtrusionSpec built with length and quantity in each other's place *)
ExtrusionSpec_swapped(l, length, q, alterations, description) ==
    [letter |-> l, length |-> q, quantity |-> length,
     alterations |-> alterations, description |-> description]

ExtrusionSpec(l, length, q, alterations, description) ==
    [letter |-> l, length |-> length, quantity |-> q,
     alterations |-> alterations, description |-> description]

get_supported_build_volumes ==
    << BuildVolume(250, 250, 250, Some("250x250x250")),
       BuildVolume(300, 300, 250, Some("300x300x250")),
       BuildVolume(350, 350, 250, Some("350x350x250")) >>

(* supports_build_volume that compares the characteristic dimension only *)
supports_build_volume_by_x(bv) ==
    \E i \in 1..Len(get_supported_build_volumes) :
        get_supported_build_volumes[i].x = bv.x

supports_build_volume(bv) ==
    \E i \in 1..Len(get_supported_build_volumes) :
        LET vol == get_supported_build_volumes[i]
        IN  vol.x = bv.x /\ vol.y = bv.y /\ vol.z = bv.z

(* get_extrusion_specs whose rear brace follows the depth of the volume *)
get_extrusion_specs_by_depth(bv) ==
    LET build_size_x == bv.x
        a_length == build_size_x + 120
        c_length == build_size_x + 120
        f_length == build_size_x + 120
        d_length == bv.y - 10
        e_length == build_size_x + 80
        g_length == build_size_x - 18
        b_length == 500
        h_length == 330
    IN  << ExtrusionSpec("A", a_length, 9, <<"TPW">>,
               "Horizontal frame extrusions (3 bottom, 4 top, 2 middle sides)"),
           ExtrusionSpec("B", b_length, 4, <<"LCP", "RCP", "AV360">>,
               "Vertical upright extrusions (span full height, 4 corners)"),
           ExtrusionSpec("C", c_length, 1, <<"AV" \o PyStr(c_length \div 2), "TPW">>,
               "Bottom rear horizontal extrusion (identical to A but with wrench-access hole at midpoint, tapped holes at ends)"),
           ExtrusionSpec("D", d_length, 1, <<>>,
               "Rear Brace of print-head gantry support"),
           ExtrusionSpec("E", e_length, 1, <<>>,
               "Gantry X-axis extrusion (used in X axis assembly, carries print head)"),
           ExtrusionSpec("F", f_length, 1, <<"AH235", "TPW">>,
               "Print bed support extrusion (G mounts to its midpoint)"),
           ExtrusionSpec("G", g_length, 1, <<"AH235">>,
               "Print bed support extrusion (mounts to F midpoint; bed constrained by rails on H front and front B extrusions)"),
           ExtrusionSpec("H", h_length, 1, <<>>,
               "Vertical center extrusion (mounts to C center, D mounts to top)") >>

get_extrusion_specs(bv) ==
    LET build_size_x == bv.x
        a_length == build_size_x + 120
        c_length == build_size_x + 120
        f_length == build_size_x + 120
        d_length == build_size_x - 10
        e_length == build_size_x + 80
        g_length == build_size_x - 18
        b_length == 500
        h_length == 330
    IN  << ExtrusionSpec("A", a_length, 9, <<"TPW">>,
               "Horizontal frame extrusions (3 bottom, 4 top, 2 middle sides)"),
           ExtrusionSpec("B", b_length, 4, <<"LCP", "RCP", "AV360">>,
               "Vertical upright extrusions (span full height, 4 corners)"),
           ExtrusionSpec("C", c_length, 1, <<"AV" \o PyStr(c_length \div 2), "TPW">>,
               "Bottom rear horizontal extrusion (identical to A but with wrench-access hole at midpoint, tapped holes at ends)"),
           ExtrusionSpec("D", d_length, 1, <<>>,
               "Rear Brace of print-head gantry support"),
           ExtrusionSpec("E", e_length, 1, <<>>,
               "Gantry X-axis extrusion (used in X axis assembly, carries print head)"),
           ExtrusionSpec("F", f_length, 1, <<"AH235", "TPW">>,
               "Print bed support extrusion (G mounts to its midpoint)"),
           ExtrusionSpec("G", g_length, 1, <<"AH235">>,
               "Print bed support extrusion (mounts to F midpoint; bed constrained by rails on H front and front B extrusions)"),
           ExtrusionSpec("H", h_length, 1, <<>>,
               "Vertical center extrusion (mounts to C center, D mounts to top)") >>

Abs(n) == IF n < 0 THEN 0 - n ELSE n

(* ExpectedSize that assumes the smallest printer when no size is known *)
ExpectedSize_guessing(build_size) ==
    IF build_size = Some("250mm") THEN 250
    ELSE IF build_size = Some("300mm") THEN 300
    ELSE IF build_size = Some("350mm") THEN 350
    ELSE 250

(* the conditional expression repeated for expected_c .. expected_g; the *)
(* None of the source is 0 here, both being false in `expected and ...`  *)
ExpectedSize(build_size) ==
    IF build_size = Some("250mm") THEN 250
    ELSE IF build_size = Some("300mm") THEN 300
    ELSE IF build_size = Some("350mm") THEN 350
    ELSE 0

(* the C rule taking a suffix that is no integer for a midpoint hole *)
IsMidpointHole_lenient(alterations, length, build_size) ==
    \E i \in 1..Len(alterations) :
        LET pos_code == alterations[i]
            expected_c == ExpectedSize(build_size)
        IN  /\ StartsWith(pos_code, "AV") \/ StartsWith(pos_code, "AH")
            /\ expected_c # 0 /\ length = expected_c + 120
            /\ IsInt(SliceFrom(pos_code, 2)) =>
                   Abs(PyInt(SliceFrom(pos_code, 2)) - (length \div 2)) <= 5

(* the C rule with the tolerance taken exclusive *)
IsMidpointHole_strict(alterations, length, build_size) ==
    \E i \in 1..Len(alterations) :
        LET pos_code == alterations[i]
            expected_c == ExpectedSize(build_size)
        IN  /\ StartsWith(pos_code, "AV") \/ StartsWith(pos_code, "AH")
            /\ IsInt(SliceFrom(pos_code, 2))
            /\ expected_c # 0 /\ length = expected_c + 120
            /\ Abs(PyInt(SliceFrom(pos_code, 2)) - (length \div 2)) < 5

(* the C rule: some AV/AH code with an integer suffix near the midpoint *)
IsMidpointHole(alterations, length, build_size) ==
    \E i \in 1..Len(alterations) :
        LET pos_code == alterations[i]
            expected_c == ExpectedSize(build_size)
        IN  /\ StartsWith(pos_code, "AV") \/ StartsWith(pos_code, "AH")
            /\ IsInt(SliceFrom(pos_code, 2))
            /\ expected_c # 0 /\ length = expected_c + 120
            /\ Abs(PyInt(SliceFrom(pos_code, 2)) - (length \div 2)) <= 5

(* get_extrusion_letter that tries the A rule before the C rule *)
get_extrusion_letter_a_before_c(d, q, bv) ==
    IF "error" \in DOMAIN d THEN None
    ELSE
    LET length_raw == IF "length_raw" \in DOMAIN d THEN d.length_raw ELSE ""
        alterations == IF "alterations" \in DOMAIN d THEN d.alterations ELSE <<>>
        length == PyInt(length_raw)
        build_size ==
            IF bv = None THEN None
            ELSE IF bv[1].x = 250 THEN Some("250mm")
            ELSE IF bv[1].x = 300 THEN Some("300mm")
            ELSE IF bv[1].x = 350 THEN Some("350mm")
            ELSE None
        expected == ExpectedSize(build_size)
    IN  IF ~IsInt(length_raw) THEN None
        ELSE IF /\ length = 500
                /\ Contains(alterations, "LCP")
                /\ Contains(alterations, "RCP")
                /\ Contains(alterations, "AV360")
        THEN Some("B")
        ELSE IF /\ Contains(alterations, "TPW")
                /\ ~Contains(alterations, "AH235")
                /\ ~Contains(alterations, "AV235")
                /\ ~Contains(alterations, "AH185")
                /\ expected # 0 /\ length = expected + 120
        THEN Some("A")
        ELSE IF /\ Contains(alterations, "TPW") /\ q = 1
                /\ IsMidpointHole(alterations, length, build_size)
        THEN Some("C")
        ELSE IF /\ ~Contains(alterations, "TPW") /\ q = 1
                /\ expected # 0 /\ length = expected + 120
                /\ Contains(alterations, "AH185") \/ Contains(alterations, "AH235")
        THEN Some("F")
        ELSE IF /\ Len(alterations) = 0 /\ q = 1
                /\ expected # 0 /\ length = expected - 10
        THEN Some("D")
        ELSE IF /\ Len(alterations) = 0 /\ q = 1
                /\ expected # 0 /\ length = expected + 80
        THEN Some("E")
        ELSE IF /\ Contains(alterations, "LTP") /\ q = 1
                /\ expected # 0 /\ length = expected - 18
        THEN Some("G")
        ELSE IF /\ Contains(alterations, "LTP") /\ q = 1
                /\ length = 330
        THEN Some("H")
        ELSE None

(* get_extrusion_letter whose G rule looks for the length of E *)
get_extrusion_letter_g_at_e_length(d, q, bv) ==
    IF "error" \in DOMAIN d THEN None
    ELSE
    LET length_raw == IF "length_raw" \in DOMAIN d THEN d.length_raw ELSE ""
        alterations == IF "alterations" \in DOMAIN d THEN d.alterations ELSE <<>>
        length == PyInt(length_raw)
        build_size ==
            IF bv = None THEN None
            ELSE IF bv[1].x = 250 THEN Some("250mm")
            ELSE IF bv[1].x = 300 THEN Some("300mm")
            ELSE IF bv[1].x = 350 THEN Some("350mm")
            ELSE None
        expected == ExpectedSize(build_size)
    IN  IF ~IsInt(length_raw) THEN None
        ELSE IF /\ length = 500
                /\ Contains(alterations, "LCP")
                /\ Contains(alterations, "RCP")
                /\ Contains(alterations, "AV360")
        THEN Some("B")
        ELSE IF /\ Contains(alterations, "TPW") /\ q = 1
                /\ IsMidpointHole(alterations, length, build_size)
        THEN Some("C")
        ELSE IF /\ ~Contains(alterations, "TPW") /\ q = 1
                /\ expected # 0 /\ length = expected + 120
                /\ Contains(alterations, "AH185") \/ Contains(alterations, "AH235")
        THEN Some("F")
        ELSE IF /\ Contains(alterations, "TPW")
                /\ ~Contains(alterations, "AH235")
                /\ ~Contains(alterations, "AV235")
                /\ ~Contains(alterations, "AH185")
                /\ expected # 0 /\ length = expected + 120
        THEN Some("A")
        ELSE IF /\ Len(alterations) = 0 /\ q = 1
                /\ expected # 0 /\ length = expected - 10
        THEN Some("D")
        ELSE IF /\ Len(alterations) = 0 /\ q = 1
                /\ expected # 0 /\ length = expected + 80
        THEN Some("E")
        ELSE IF /\ Contains(alterations, "LTP") /\ q = 1
                /\ expected # 0 /\ length = expected + 80
        THEN Some("G")
        ELSE IF /\ Contains(alterations, "LTP") /\ q = 1
                /\ length = 330
        THEN Some("H")
        ELSE None

(* get_extrusion_letter that takes the build size from the depth y *)
get_extrusion_letter_by_depth(d, q, bv) ==
    IF "error" \in DOMAIN d THEN None
    ELSE
    LET length_raw == IF "length_raw" \in DOMAIN d THEN d.length_raw ELSE ""
        alterations == IF "alterations" \in DOMAIN d THEN d.alterations ELSE <<>>
        length == PyInt(length_raw)
        build_size ==
            IF bv = None THEN None
            ELSE IF bv[1].y = 250 THEN Some("250mm")
            ELSE IF bv[1].y = 300 THEN Some("300mm")
            ELSE IF bv[1].y = 350 THEN Some("350mm")
            ELSE None
        expected == ExpectedSize(build_size)
    IN  IF ~IsInt(length_raw) THEN None
        ELSE IF /\ length = 500
                /\ Contains(alterations, "LCP")
                /\ Contains(alterations, "RCP")
                /\ Contains(alterations, "AV360")
        THEN Some("B")
        ELSE IF /\ Contains(alterations, "TPW") /\ q = 1
                /\ IsMidpointHole(alterations, length, build_size)
        THEN Some("C")
        ELSE IF /\ ~Contains(alterations, "TPW") /\ q = 1
                /\ expected # 0 /\ length = expected + 120
                /\ Contains(alterations, "AH185") \/ Contains(alterations, "AH235")
        THEN Some("F")
        ELSE IF /\ Contains(alterations, "TPW")
                /\ ~Contains(alterations, "AH235")
                /\ ~Contains(alterations, "AV235")
                /\ ~Contains(alterations, "AH185")
                /\ expected # 0 /\ length = expected + 120
        THEN Some("A")
        ELSE IF /\ Len(alterations) = 0 /\ q = 1
                /\ expected # 0 /\ length = expected - 10
        THEN Some("D")
        ELSE IF /\ Len(alterations) = 0 /\ q = 1
                /\ expected # 0 /\ length = expected + 80
        THEN Some("E")
        ELSE IF /\ Contains(alterations, "LTP") /\ q = 1
                /\ expected # 0 /\ length = expected - 18
        THEN Some("G")
        ELSE IF /\ Contains(alterations, "LTP") /\ q = 1
                /\ length = 330
        THEN Some("H")
        ELSE None

(* d: a result of decode_misumi_name; q: int; bv: None or Some(BuildVolume) *)
get_extrusion_letter(d, q, bv) ==
    IF "error" \in DOMAIN d THEN None
    ELSE
    LET length_raw == IF "length_raw" \in DOMAIN d THEN d.length_raw ELSE ""
        alterations == IF "alterations" \in DOMAIN d THEN d.alterations ELSE <<>>
        length == PyInt(length_raw)
        build_size ==
            IF bv = None THEN None
            ELSE IF bv[1].x = 250 THEN Some("250mm")
            ELSE IF bv[1].x = 300 THEN Some("300mm")
            ELSE IF bv[1].x = 350 THEN Some("350mm")
            ELSE None
        expected == ExpectedSize(build_size)
    IN  IF ~IsInt(length_raw) THEN None
        ELSE IF /\ length = 500
                /\ Contains(alterations, "LCP")
                /\ Contains(alterations, "RCP")
                /\ Contains(alterations, "AV360")
        THEN Some("B")
        ELSE IF /\ Contains(alterations, "TPW") /\ q = 1
                /\ IsMidpointHole(alterations, length, build_size)
        THEN Some("C")
        ELSE IF /\ ~Contains(alterations, "TPW") /\ q = 1
                /\ expected # 0 /\ length = expected + 120
                /\ Contains(alterations, "AH185") \/ Contains(alterations, "AH235")
        THEN Some("F")
        ELSE IF /\ Contains(alterations, "TPW")
                /\ ~Contains(alterations, "AH235")
                /\ ~Contains(alterations, "AV235")
                /\ ~Contains(alterations, "AH185")
                /\ expected # 0 /\ length = expected + 120
        THEN Some("A")
        ELSE IF /\ Len(alterations) = 0 /\ q = 1
                /\ expected # 0 /\ length = expected - 10
        THEN Some("D")
        ELSE IF /\ Len(alterations) = 0 /\ q = 1
                /\ expected # 0 /\ length = expected + 80
        THEN Some("E")
        ELSE IF /\ Contains(alterations, "LTP") /\ q = 1
                /\ expected # 0 /\ length = expected - 18
        THEN Some("G")
        ELSE IF /\ Contains(alterations, "LTP") /\ q = 1
                /\ length = 330
        THEN Some("H")
        ELSE None

---------------------------------------------------------------------------
(* voron.py *)

(* the legacy get_extrusion_letter that takes the ambiguous part for C *)
voron_get_extrusion_letter_taking_c(d, q, size) ==
    IF "error" \in DOMAIN d THEN None
    ELSE
    LET length_raw == IF "length_raw" \in DOMAIN d THEN d.length_raw ELSE ""
        alterations == IF "alterations" \in DOMAIN d THEN d.alterations ELSE <<>>
        length == PyInt(length_raw)
    IN  IF ~IsInt(length_raw) THEN None
        ELSE IF /\ length = 500
                /\ Contains(alterations, "LCP")
                /\ Contains(alterations, "RCP")
                /\ Contains(alterations, "AV360")
        THEN Some("B")
        ELSE IF length = 340 /\ q = 1 THEN Some("A")
        ELSE IF length = 290 /\ q = 1 THEN Some("A")
        ELSE IF length = 240 /\ q = 1 THEN Some("A")
        ELSE IF length \in {330, 332} /\ Contains(alterations, "LTP") THEN Some("E")
        ELSE IF length \in {380, 382} /\ Contains(alterations, "LTP") THEN Some("E")
        ELSE IF length \in {430, 432} /\ Contains(alterations, "LTP") THEN Some("E")
        ELSE IF length = 430 /\ q = 1 THEN Some("D")
        ELSE IF length = 380 /\ q = 1 THEN Some("D")
        ELSE IF length = 480 /\ q = 1 THEN Some("D")
        ELSE IF /\ length = 470 /\ Contains(alterations, "TPW")
                /\ ~Contains(alterations, "AH235")
        THEN IF size = Some("300mm") THEN Some("C")
             ELSE IF size \in {Some("250mm"), Some("350mm")} THEN Some("H")
             ELSE Some("C")
        ELSE IF /\ length = 420 /\ Contains(alterations, "TPW")
                /\ ~Contains(alterations, "AH235")
        THEN Some("C")
        ELSE IF /\ length = 520 /\ Contains(alterations, "TPW")
                /\ ~Contains(alterations, "AH235")
        THEN Some("C")
        ELSE IF /\ length = 470 /\ Contains(alterations, "AH235")
                /\ Contains(alterations, "TPW") /\ q = 1
        THEN Some("F")
        ELSE IF /\ length = 420 /\ Contains(alterations, "AH235")
                /\ Contains(alterations, "TPW") /\ q = 1
        THEN Some("F")
        ELSE IF /\ length = 520 /\ Contains(alterations, "AH235")
                /\ Contains(alterations, "TPW") /\ q = 1
        THEN Some("F")
        ELSE IF /\ length = 470 /\ Contains(alterations, "AH235")
                /\ ~Contains(alterations, "TPW") /\ q = 1
        THEN Some("G")
        ELSE IF /\ length = 420 /\ Contains(alterations, "AH235")
                /\ ~Contains(alterations, "TPW") /\ q = 1
        THEN Some("G")
        ELSE IF /\ length = 520 /\ Contains(alterations, "AH235")
                /\ ~Contains(alterations, "TPW") /\ q = 1
        THEN Some("G")
        ELSE None

(* the legacy get_extrusion_letter; size: None or Some(str) *)
voron_get_extrusion_letter(d, q, size) ==
    IF "error" \in DOMAIN d THEN None
    ELSE
    LET length_raw == IF "length_raw" \in DOMAIN d THEN d.length_raw ELSE ""
        alterations == IF "alterations" \in DOMAIN d THEN d.alterations ELSE <<>>
        length == PyInt(length_raw)
    IN  IF ~IsInt(length_raw) THEN None
        ELSE IF /\ length = 500
                /\ Contains(alterations, "LCP")
                /\ Contains(alterations, "RCP")
                /\ Contains(alterations, "AV360")
        THEN Some("B")
        ELSE IF length = 340 /\ q = 1 THEN Some("A")
        ELSE IF length = 290 /\ q = 1 THEN Some("A")
        ELSE IF length = 240 /\ q = 1 THEN Some("A")
        ELSE IF length \in {330, 332} /\ Contains(alterations, "LTP") THEN Some("E")
        ELSE IF length \in {380, 382} /\ Contains(alterations, "LTP") THEN Some("E")
        ELSE IF length \in {430, 432} /\ Contains(alterations, "LTP") THEN Some("E")
        ELSE IF length = 430 /\ q = 1 THEN Some("D")
        ELSE IF length = 380 /\ q = 1 THEN Some("D")
        ELSE IF length = 480 /\ q = 1 THEN Some("D")
        ELSE IF /\ length = 470 /\ Contains(alterations, "TPW")
                /\ ~Contains(alterations, "AH235")
        THEN IF size = Some("300mm") THEN Some("C")
             ELSE IF size \in {Some("250mm"), Some("350mm")} THEN Some("H")
             ELSE Some("C/H")
        ELSE IF /\ length = 420 /\ Contains(alterations, "TPW")
                /\ ~Contains(alterations, "AH235")
        THEN Some("C")
        ELSE IF /\ length = 520 /\ Contains(alterations, "TPW")
                /\ ~Contains(alterations, "AH235")
        THEN Some("C")
        ELSE IF /\ length = 470 /\ Contains(alterations, "AH235")
                /\ Contains(alterations, "TPW") /\ q = 1
        THEN Some("F")
        ELSE IF /\ length = 420 /\ Contains(alterations, "AH235")
                /\ Contains(alterations, "TPW") /\ q = 1
        THEN Some("F")
        ELSE IF /\ length = 520 /\ Contains(alterations, "AH235")
                /\ Contains(alterations, "TPW") /\ q = 1
        THEN Some("F")
        ELSE IF /\ length = 470 /\ Contains(alterations, "AH235")
                /\ ~Contains(alterations, "TPW") /\ q = 1
        THEN Some("G")
        ELSE IF /\ length = 420 /\ Contains(alterations, "AH235")
                /\ ~Contains(alterations, "TPW") /\ q = 1
        THEN Some("G")
        ELSE IF /\ length = 520 /\ Contains(alterations, "AH235")
                /\ ~Contains(alterations, "TPW") /\ q = 1
        THEN Some("G")
        ELSE None

(* decode_misumi_name on the part number of every part of the list *)
decoded_parts(bom) == [i \in 1..Len(bom) |-> decode_misumi_name(bom[i].part_number)]

(* the build size a frame length names *)
size_of_length(length) ==
    IF length = 340 THEN Some("350mm")
    ELSE IF length = 290 THEN Some("300mm")
    ELSE IF length = 240 THEN Some("250mm")
    ELSE None

(* the loop of detect_build_size over the decoded parts: parts that are  *)
(* errors or whose length is no integer are skipped                       *)
RECURSIVE first_build_size(_)
first_build_size(ds) ==
    IF ds = <<>> THEN None
    ELSE IF "error" \in DOMAIN Head(ds) THEN first_build_size(Tail(ds))
    ELSE IF ~IsInt(Head(ds).length_raw) THEN first_build_size(Tail(ds))
    ELSE IF size_of_length(PyInt(Head(ds).length_raw)) = None THEN first_build_size(Tail(ds))
    ELSE size_of_length(PyInt(Head(ds).length_raw))

(* the decoded parts detect_build_size got before it returned: all of    *)
(* them, or those up to the first that names a build size                 *)
RECURSIVE scanned_parts(_)
scanned_parts(ds) ==
    IF ds = <<>> THEN <<>>
    ELSE IF first_build_size(<<Head(ds)>>) # None THEN <<Head(ds)>>
    ELSE <<Head(ds)>> \o scanned_parts(Tail(ds))

(* detect_build_size that keeps scanning and returns the size named last *)
RECURSIVE detect_build_size_last(_)
detect_build_size_last(bom) ==
    IF bom = <<>> THEN None
    ELSE IF detect_build_size_last(Tail(bom)) # None THEN detect_build_size_last(Tail(bom))
    ELSE first_build_size(decoded_parts(<<Head(bom)>>))

(* detect_build_size: the size named by the first part whose integer     *)
(* length is 340, 290 or 240; bom: a list of parts [part_number, quantity] *)
detect_build_size(bom) == first_build_size(decoded_parts(bom))

(* printers/__init__.py *)
PRINTER_TYPES == {"trident"}

UpperCaseOrder == "ABCDEFGHIJKLMNOPQRSTUVWXYZ"

LowerCaseOrder == "abcdefghijklmnopqrstuvwxyz"

(* the capitals of Latin-1 above ASCII (all of U+00C0..U+00DE but the    *)
(* multiplication sign) and their lowercase letters, in the same order   *)
Latin1UpperCaseOrder == "ÀÁÂÃÄÅÆÇÈÉÊËÌÍÎÏÐÑÒÓÔÕÖØÙÚÛÜÝÞ"

Latin1LowerCaseOrder == "àáâãäåæçèéêëìíîïðñòóôõöøùúûüýþ"

(* str.lower on one character of U+0001..U+00FF *)
LowerChar(c) ==
    IF c \in UpperLetters
    THEN CharAt(LowerCaseOrder, CHOOSE i \in 1..26 : CharAt(UpperCaseOrder, i) = c)
    ELSE IF \E i \in 1..Len(Latin1UpperCaseOrder) : CharAt(Latin1UpperCaseOrder, i) = c
    THEN CharAt(Latin1LowerCaseOrder,
                CHOOSE i \in 1..Len(Latin1UpperCaseOrder) : CharAt(Latin1UpperCaseOrder, i) = c)
    ELSE c

(* str.lower on the characters used here *)
RECURSIVE Lower(_)
Lower(s) == IF s = "" THEN "" ELSE LowerChar(CharAt(s, 1)) \o Lower(SliceFrom(s, 1))

(* get_printer on an empty registry *)
get_printer_unregistered(printer_name) == None

(* None, or Some(name of the printer class instantiated) *)
get_printer(printer_name) ==
    IF Lower(printer_name) \in PRINTER_TYPES THEN Some(Lower(printer_name)) ELSE None

(* a < b for Python strings *)
RECURSIVE StrLess(_, _)
StrLess(a, b) ==
    IF b = "" THEN FALSE
    ELSE IF a = "" THEN TRUE
    ELSE IF CharAt(a, 1) = CharAt(b, 1) THEN StrLess(SliceFrom(a, 1), SliceFrom(b, 1))
    ELSE ord[CharAt(a, 1)] < ord[CharAt(b, 1)]

(* the bullet of the Voron report: the source file holds the three      *)
(* characters U+00E2 U+20AC U+00A2                                        *)
VoronBullet == <<226, 8364, 162>>

(* int(qty) with the fallback 1 of the report *)
QuantityOf(part) == IF IsInt(part.quantity) THEN PyInt(part.quantity) ELSE 1

(* the BuildVolume the report builds from the detected size *)
VolumeOfSize(size) ==
    IF size = Some("250mm") THEN Some(BuildVolume(250, 250, 250, None))
    ELSE IF size = Some("300mm") THEN Some(BuildVolume(300, 300, 250, None))
    ELSE IF size = Some("350mm") THEN Some(BuildVolume(350, 350, 250, None))
    ELSE None

(* the letter of a part: from the printer of the registry when there is  *)
(* one, from the legacy classifier otherwise; decoded_part:               *)
(* decode_misumi_name(part["part_number"])                                *)
designation(part, decoded_part, size) ==
    IF get_printer("trident") # None
    THEN get_extrusion_letter(decoded_part, QuantityOf(part), VolumeOfSize(size))
    ELSE voron_get_extrusion_letter(decoded_part, QuantityOf(part), size)

letter_order == [A |-> 0, B |-> 1, C |-> 2, D |-> 3, E |-> 4, F |-> 5, G |-> 6, H |-> 7]

(* the tuple get_sort_key returns for the letter l of a part *)
sort_key_of(l, pn) ==
    IF l # None /\ l[1] \in DOMAIN letter_order
    THEN <<letter_order[l[1]], pn>>
    ELSE <<999, pn>>

get_sort_key(part, decoded_part, size) ==
    sort_key_of(designation(part, decoded_part, size), part.part_number)

(* the key of every part, as sorted() computes them once before sorting *)
sort_keys_of(bom, ds, size) == [i \in 1..Len(bom) |-> get_sort_key(bom[i], ds[i], size)]

(* k1 < k2 for the tuples (priority, part number) *)
KeyLess(k1, k2) == k1[1] < k2[1] \/ (k1[1] = k2[1] /\ StrLess(k1[2], k2[2]))

(* sorted(parts, key = get_sort_key) as the order of the indices of the  *)
(* list: stable, equal keys keep their order                              *)
RECURSIVE InsertSorted(_, _, _)
InsertSorted(i, order, keys) ==
    IF order = <<>> THEN <<i>>
    ELSE IF KeyLess(keys[i], keys[Head(order)])
    THEN <<i>> \o order
    ELSE <<Head(order)>> \o InsertSorted(i, Tail(order), keys)

RECURSIVE sorted_order(_, _)
sorted_order(n, keys) ==
    IF n = 0 THEN <<>> ELSE InsertSorted(n, sorted_order(n - 1, keys), keys)

(* the value all decoded parts share for a field, None unless exactly one *)
CommonOf(values) ==
    IF Cardinality(values) = 1 THEN Some(CHOOSE v \in values : TRUE) ELSE None

common_series_of(ds) ==
    CommonOf({ds[i].series : i \in {j \in 1..Len(ds) : ~("error" \in DOMAIN ds[j])}})

common_size_of(ds) ==
    CommonOf({ds[i].size : i \in {j \in 1..Len(ds) : ~("error" \in DOMAIN ds[j])}})

(* truth of `if common_series` for None or Some(str) *)
Truthy(o) == o # None /\ o[1] # ""

(* the lines the report appends for the i-th part of the sorted list;    *)
(* l: the letter the loop computes for the part                           *)
voron_part_lines(i, part, decoded_part, l, common_series, common_size) ==
    <<Codes("[" \o PyStr(i) \o "] Qty: " \o part.quantity)>>
    \o (IF l # None /\ l[1] # ""
        THEN IF l[1] = "C/H"
             THEN <<Codes("     Designation: C/H Extrusion (horizontal frame pieces)")>>
             ELSE <<Codes("     Designation: " \o l[1] \o " Extrusion")>>
        ELSE <<>>)
    \o <<Codes("     Part Number: " \o part.part_number)>>
    \o (IF ~("error" \in DOMAIN decoded_part)
        THEN (IF Some(decoded_part.series) # common_series
              THEN <<Codes("     Series: " \o decoded_part.series)>> ELSE <<>>)
             \o (IF Some(decoded_part.size) # common_size
                 THEN <<Codes("     Size: " \o decoded_part.size)>> ELSE <<>>)
             \o <<Codes("     Length: " \o decoded_part.length)>>
             \o (IF Len(decoded_part.alterations) > 0
                 THEN <<Codes("     Alterations:")>>
                      \o [k \in 1..Len(decoded_part.alteration_descriptions) |->
                              Codes("       ") \o VoronBullet
                                  \o Codes(" " \o decoded_part.alteration_descriptions[k])]
                 ELSE <<Codes("     Alterations: None")>>)
        ELSE <<Codes("     Error: " \o decoded_part.error)>>)
    \o <<Codes("")>>

(* the header of the Voron report *)
voron_header_lines(size, common_series, common_size) ==
    << Codes(Repeat("=", 70)), Codes("MISUMI Frame Rails from BOM") >>
    \o (IF size # None THEN <<Codes("Build Size: " \o size[1] \o " Trident")>> ELSE <<>>)
    \o << Codes(Repeat("=", 70)), Codes("") >>
    \o (IF Truthy(common_series) \/ Truthy(common_size)
        THEN << Codes("Common to all extrusions: "
                      \o Join((IF Truthy(common_series)
                               THEN <<"Series: " \o common_series[1]>> ELSE <<>>)
                              \o (IF Truthy(common_size)
                                  THEN <<"Size: " \o common_size[1]>> ELSE <<>>),
                              " | ")),
                Codes("") >>
        ELSE <<>>)
    \o (IF size # None
        THEN << Codes("Note: Build sizes (250/300/350mm) refer to X/Y build volume dimensions. "
                      \o "All standard builds share a 250mm Z height.\n"
                      \o "A, C, D, E, F, and G extrusions are size-dependent (X/Y dimensions). "
                      \o "B and H extrusions are fixed for standard 250mm Z height, but would "
                      \o "change if build height is customized."),
                Codes("") >>
        ELSE <<>>)

(* the lines of the report once the parts are sorted: the header, then   *)
(* the loop over the sorted parts, which computes the letter of each      *)
voron_sorted_lines(bom, ds, size, order) ==
    voron_header_lines(size, common_series_of(ds), common_size_of(ds))
    \o Flatten([k \in 1..Len(order) |->
                  voron_part_lines(k, bom[order[k]], ds[order[k]],
                                   designation(bom[order[k]], ds[order[k]], size),
                                   common_series_of(ds), common_size_of(ds))])

(* the lines of the report given the decoded parts, the detected size    *)
(* and the sort keys                                                      *)
voron_keyed_lines(bom, ds, size, keys) ==
    voron_sorted_lines(bom, ds, size, sorted_order(Len(bom), keys))

voron_decoded_lines(bom, ds, size) ==
    voron_keyed_lines(bom, ds, size, sort_keys_of(bom, ds, size))

(* the list `lines` of format_voron_bom_output at its return *)
format_voron_bom_output_lines(bom) ==
    IF bom = <<>> \/ "error" \in DOMAIN bom[1] THEN <<>>
    ELSE voron_decoded_lines(bom, decoded_parts(bom), detect_build_size(bom))

format_voron_bom_output(bom) == report_text(bom, format_voron_bom_output_lines(bom))

---------------------------------------------------------------------------
(* Inputs of the calls *)

MaxTokenLen == 3

MaxDigits == 2

MaxSegments == 4

MaxAlterations == 2

RECURSIVE Strings(_, _)
(* all strings of at most n characters of the set chars *)
Strings(chars, n) ==
    IF n = 0 THEN {""}
    ELSE LET shorter == Strings(chars, n - 1)
         IN  shorter \cup {s \o c : s \in shorter, c \in chars}

RECURSIVE Seqs(_, _)
(* all sequences of at most n elements of the set S *)
Seqs(S, n) ==
    IF n = 0 THEN {<<>>}
    ELSE LET shorter == Seqs(S, n - 1)
         IN  shorter \cup {Append(q, e) : q \in shorter, e \in S}

TokenAlphabet == {"A", "V", "Z", "6", "0", "a", "_", "\n"}

LetterCodes == {c \in DOMAIN ALTERATION_CODES : Span(c, UpperLetters) = Len(c)}

UnknownBases == {"Z", "X", "Q", "XYZ", "UNKNOWN"}

DigitStrings == (Strings({"0", "3", "6"}, MaxDigits) \ {""}) \cup {"360", "235", "1100"}

ExampleTokens == {"AV360\n", "JLP1100-H2", "av360", "360AV", "L_T", "L_T4", "R_T450", "tpw", " TPW",
                  "Z612", "Z123", "Z57", "Z80", "X50", "X85", "z6", "x5", "zz12", "aV6", "Av6"}

TokenInputs ==
    DOMAIN ALTERATION_CODES
        \cup {b \o d : b \in LetterCodes \cup UnknownBases, d \in DigitStrings}
        \cup Strings(TokenAlphabet, MaxTokenLen)
        \cup ExampleTokens

Segments == {"", "HFSB5", "2020", "404020", "500", "abc", "TPW", "AV360"}

PartNumberInputs == {Join(q, "-") : q \in Seqs(Segments, MaxSegments) \ {<<>>}}

EncodeSeries == {"HFSB5", "", "HFS-6"}

EncodeSizes == {"2020", "404020", "20-20"}

EncodeLengths == {-5, 0, 7, 330, 500}

EncodeTokens == {"TPW", "AV360", "", "L-R"}

MaxSizeLen == 6

MaxLengthLen == 3

MaxClassifyAlterations == 2

SizeInputs == Strings({"2", "4", "x"}, MaxSizeLen)

LengthInputs ==
    Strings({"0", "5", "+", " ", "_", "a"}, MaxLengthLen)
        \cup {"500", "007", "1_000", "+500", " 500 ", "5\n", "5_", "1__0", "5"}

(* part numbers that vary the size segment or the length segment alone *)
FieldPartNumbers ==
    {"HFSB5-" \o size \o "-500" : size \in SizeInputs}
        \cup {"HFSB5-2020-" \o length : length \in LengthInputs}

VolumeSizes == {200, 250, 300, 350}

VolumeInputs ==
    {BuildVolume(x, y, z, None) : x \in VolumeSizes, y \in VolumeSizes, z \in {200, 250}}
        \cup {get_supported_build_volumes[i] : i \in 1..Len(get_supported_build_volumes)}
        \cup {BuildVolume(250, 350, 200, Some("Trident")), BuildVolume(350, 350, 250, Some("large"))}

ClassifyTokens == {"TPW", "LTP", "AH235", "AV235", "AH185", "AV190", "AV191", "AVx"}

ExampleAlterations ==
    { <<"LCP", "RCP", "AV360">>, <<"AV360", "RCP", "LCP", "TPW">>, <<"LCP", "RCP">>,
      <<"LCP", "AV360">>, <<"TPW", "AVx", "AV235">>, <<"AV179", "TPW">>, <<"AH180", "TPW">>,
      <<"AV210", "TPW">>, <<"AV+190", "TPW">>, <<"TPW", "AV1_85">>, <<"AH", "TPW">> }

ClassifyLengths ==
    {PyStr(x + d) : x \in {250, 300, 350}, d \in {120, -10, 80, -18}}
        \cup {"500", "330", "480", "520", "abc", "0370"}

(* the part numbers of BOM rows: classifiable parts and one that decodes to an error *)
BomPartNumbers ==
    {Join(<<"HFSB5", "2020", length>> \o alterations, "-") :
        length \in ClassifyLengths,
        alterations \in Seqs(ClassifyTokens, MaxClassifyAlterations) \cup ExampleAlterations}
        \cup {"HFSB5-2020"}

Quantities == {1, 9}

ClassifyVolumes ==
    {None} \cup {BuildVolume(x, x, 250, None) : x \in VolumeSizes}
        \cup {BuildVolume(250, 1, 1, None), BuildVolume(350, 300, 200, Some("tall"))}

MaxBomParts == 2

BomRows ==
    {[part_number |-> pn, quantity |-> "1"] :
        pn \in {"HFSB5-2020-240", "HFSB5-2020-340", "HFSB5-2020-470-TPW",
                "HFSB5-2020-330-LTP", "HFSB5-2020", "HFS6-3030-0290-TPW"}}
        \cup { [part_number |-> "HFSB5-2020-240", quantity |-> "9"],
               [part_number |-> "HFSB5-2020-340", quantity |-> "9"],
               [part_number |-> "HFSB5-2020-470-TPW", quantity |-> "x"] }

(* the BOM rows of the part numbers encoded from the specs of a build volume *)
GeneratedBom(bv) ==
    LET generated == get_extrusion_specs(bv)
    IN  [i \in 1..Len(generated) |->
            [part_number |-> encode_part_number("HFSB5", "2020", generated[i].length,
                                                generated[i].alterations),
             quantity |-> PyStr(generated[i].quantity)]]

Rotate(q, k) == [i \in 1..Len(q) |-> q[((i + k - 1) % Len(q)) + 1]]

Reverse(q) == [i \in 1..Len(q) |-> q[Len(q) + 1 - i]]

(* the generated rows with the rear brace D at every position, both ways round *)
GeneratedBomOrders(bv) ==
    {Rotate(GeneratedBom(bv), k) : k \in 0..7}
        \cup {Reverse(Rotate(GeneratedBom(bv), k)) : k \in 0..7}

BomLists ==
    Seqs(BomRows, MaxBomParts)
        \cup UNION {GeneratedBomOrders(get_supported_build_volumes[i]) :
                        i \in 1..Len(get_supported_build_volumes)}
        \cup { <<[error |-> "File not found: bom.csv"]>> }

---------------------------------------------------------------------------
(* The calls.  Every call is a pure function, so a behaviour is one chain  *)
(* of calls: Init holds the arguments of the first call, pc names the call *)
(* to make next or the call that returned last.                            *)

Init ==
    /\ table = ALTERATION_CODES
    /\ supported = FALSE /\ legacy_letter = None /\ rebuilt = None
    /\ detected_size = None /\ sort_keys = <<>> /\ lines = <<>>
    /\
       \/ /\ pc = "call_parse_alteration_code"
          /\ alt_code \in TokenInputs
          /\ alt_ret = None
          /\ build_volume = None /\ specs = <<>> /\ role = 0
          /\ enc_args = None /\ part_number = None /\ decoded = None
          /\ quantity = 0 /\ letter = None /\ text = None /\ bom_parts = <<>>
       \/ /\ pc = "call_decode_misumi_name"
          /\ part_number \in PartNumberInputs \cup FieldPartNumbers
          /\ alt_code = None /\ alt_ret = None
          /\ build_volume = None /\ specs = <<>> /\ role = 0
          /\ enc_args = None /\ decoded = None
          /\ quantity = 0 /\ letter = None /\ text = None /\ bom_parts = <<>>
       \/ /\ pc = "call_encode_part_number"
          /\ enc_args \in [series : EncodeSeries, size : EncodeSizes, length : EncodeLengths,
                        alterations : Seqs(EncodeTokens, MaxAlterations)]
          /\ alt_code = None /\ alt_ret = None
          /\ build_volume = None /\ specs = <<>> /\ role = 0
          /\ part_number = None /\ decoded = None
          /\ quantity = 0 /\ letter = None /\ text = None /\ bom_parts = <<>>
       \/ /\ pc = "call_get_extrusion_specs"
          /\ build_volume \in VolumeInputs
          /\ alt_code = None /\ alt_ret = None
          /\ specs = <<>> /\ role = 0
          /\ enc_args = None /\ part_number = None /\ decoded = None
          /\ quantity = 0 /\ letter = None /\ text = None /\ bom_parts = <<>>
       \/ /\ pc = "call_get_extrusion_letter"
          /\ part_number \in BomPartNumbers
          /\ quantity \in Quantities
          /\ build_volume \in ClassifyVolumes
          /\ alt_code = None /\ alt_ret = None
          /\ specs = <<>> /\ role = 0
          /\ enc_args = None /\ decoded = None
          /\ letter = None /\ text = None /\ bom_parts = <<>>
       \/ /\ pc = "call_with_bom"
          /\ bom_parts \in BomLists
          /\ alt_code = None /\ alt_ret = None
          /\ build_volume = None /\ specs = <<>> /\ role = 0
          /\ enc_args = None /\ part_number = None /\ decoded = None
          /\ quantity = 0 /\ letter = None /\ text = None

(* parse_alteration_code(alt_code) *)
ParseAlterationCode ==
    /\ pc = "call_parse_alteration_code"
    /\ pc' = "token"
    /\ alt_ret' = parse_alteration_code(alt_code)
    /\ table' = table_after_parse_alteration_code(table, alt_code)
    /\ UNCHANGED <<alt_code, build_volume, specs, role, enc_args, part_number,
                   decoded, quantity, letter, text,
                   supported, legacy_letter, rebuilt, bom_parts, detected_size, sort_keys, lines>>

(* decode_misumi_name(part_number), on a part number given by the user or *)
(* on the one that encode_part_number returned                            *)
DecodePartNumber ==
    /\ pc \in {"call_decode_misumi_name", "encoded"}
    /\ pc' = "decoded"
    /\ decoded' = decode_misumi_name(part_number)
    /\ table' = table_after_decode_misumi_name(table, decoded')
    /\ UNCHANGED <<alt_code, alt_ret, build_volume, specs, role, enc_args,
                   part_number, quantity, letter, text,
                   supported, legacy_letter, rebuilt, bom_parts, detected_size, sort_keys, lines>>

(* MisumiMaker.encode_part_number on arguments given by the user *)
EncodePartNumber ==
    /\ pc = "call_encode_part_number"
    /\ pc' = "encoded"
    /\ part_number' = encode_part_number(enc_args.series, enc_args.size,
                                         enc_args.length, enc_args.alterations)
    /\ UNCHANGED <<table, alt_code, alt_ret, build_volume, specs, role, enc_args,
                   decoded, quantity, letter, text,
                   supported, legacy_letter, rebuilt, bom_parts, detected_size, sort_keys, lines>>

(* encoder_cli.main: supports_build_volume(build_volume), which only     *)
(* decides whether a warning is printed, then get_extrusion_specs        *)
GetExtrusionSpecs ==
    /\ pc = "call_get_extrusion_specs"
    /\ pc' = "specs"
    /\ supported' = supports_build_volume(build_volume)
    /\ specs' = get_extrusion_specs(build_volume)
    /\ UNCHANGED <<table, alt_code, alt_ret, build_volume, role, enc_args, part_number,
                   decoded, quantity, letter, text,
                   legacy_letter, rebuilt, bom_parts, detected_size, sort_keys, lines>>

(* one pass of the loop of encoder_cli.main over the specs *)
EncodeSpec(i) ==
    /\ pc = "specs"
    /\ pc' = "encoded"
    /\ role' = i
    /\ enc_args' = [series |-> "HFSB5", size |-> "2020", length |-> specs[i].length,
                    alterations |-> specs[i].alterations]
    /\ part_number' = encode_part_number("HFSB5", "2020", specs[i].length, specs[i].alterations)
    /\ UNCHANGED <<table, alt_code, alt_ret, build_volume, specs, decoded, quantity, letter, text,
                   supported, legacy_letter, rebuilt, bom_parts, detected_size, sort_keys, lines>>

(* get_extrusion_letter on the decoded part of a generated spec, with the *)
(* spec's quantity and the build volume the specs were generated for      *)
ClassifyGenerated ==
    /\ pc = "decoded"
    /\ role # 0
    /\ pc' = "classified"
    /\ quantity' = specs[role].quantity
    /\ letter' = get_extrusion_letter(decoded, specs[role].quantity, Some(build_volume))
    /\ UNCHANGED <<table, alt_code, alt_ret, build_volume, specs, role, enc_args,
                   part_number, decoded, text,
                   supported, legacy_letter, rebuilt, bom_parts, detected_size, sort_keys, lines>>

(* format_description(decoded), as cli.main prints a decoded part number: *)
(* the part number is decoded and the result is formatted                 *)
FormatDescription ==
    /\ pc = "decoded"
    /\ pc' = "formatted"
    /\ decoded' = decode_misumi_name(part_number)
    /\ table' = table_after_decode_misumi_name(table, decoded')
    /\ text' = format_description(decoded')
    /\ UNCHANGED <<alt_code, alt_ret, build_volume, specs, role, enc_args,
                   part_number, quantity, letter,
                   supported, legacy_letter, rebuilt, bom_parts, detected_size, sort_keys, lines>>

(* one BOM row as format_voron_bom_output handles it: decode the part    *)
(* number, then get_extrusion_letter with the row's quantity and the     *)
(* build volume of the BOM (None when no build size was detected)        *)
ClassifyBomPart ==
    /\ pc = "call_get_extrusion_letter"
    /\ pc' = "classified"
    /\ decoded' = decode_misumi_name(part_number)
    /\ table' = table_after_decode_misumi_name(table, decoded')
    /\ letter' = get_extrusion_letter(decode_misumi_name(part_number), quantity,
                                      IF build_volume = None THEN None ELSE Some(build_volume))
    /\ UNCHANGED <<alt_code, alt_ret, build_volume, specs, role, enc_args,
                   part_number, quantity, text,
                   supported, legacy_letter, rebuilt, bom_parts, detected_size, sort_keys, lines>>

(* encode_part_number on the raw fields of the decoded part *)
EncodeDecoded ==
    /\ pc = "decoded"
    /\ ~("error" \in DOMAIN decoded)
    /\ pc' = "reencoded"
    /\ rebuilt' = encode_part_number_raw(decoded.series, decoded.size_raw,
                                         decoded.length_raw, decoded.alterations)
    /\ UNCHANGED <<table, alt_code, alt_ret, build_volume, specs, role, enc_args,
                   part_number, decoded, quantity, letter, text,
                   supported, legacy_letter, bom_parts, detected_size, sort_keys, lines>>

(* the build-size string that names the build volume of the call *)
BuildSizeOf(bv) ==
    IF bv = None THEN None ELSE Some(PyStr(bv.x) \o "mm")

(* the legacy get_extrusion_letter of voron.py on the arguments of the   *)
(* call that just returned, the build volume given by its size string    *)
ClassifyLegacy ==
    /\ pc = "classified"
    /\ role = 0
    /\ pc' = "legacy_classified"
    /\ legacy_letter' = voron_get_extrusion_letter(decoded, quantity, BuildSizeOf(build_volume))
    /\ UNCHANGED <<table, alt_code, alt_ret, build_volume, specs, role, enc_args,
                   part_number, decoded, quantity, letter, text,
                   supported, rebuilt, bom_parts, detected_size, sort_keys, lines>>

(* detect_build_size(parts) on a list of parts *)
DetectBuildSize ==
    /\ pc = "call_with_bom"
    /\ IF bom_parts = <<>> THEN TRUE ELSE ~("error" \in DOMAIN bom_parts[1])
    /\ pc' = "detected"
    /\ detected_size' = detect_build_size(bom_parts)
    /\ table' = table_after_parts(table, scanned_parts(decoded_parts(bom_parts)))
    /\ UNCHANGED <<alt_code, alt_ret, build_volume, specs, role, enc_args,
                   part_number, decoded, quantity, letter, text,
                   supported, legacy_letter, rebuilt, bom_parts, sort_keys, lines>>

(* format_bom_output(parts) *)
FormatBomOutput ==
    /\ pc = "call_with_bom"
    /\ pc' = "bom_formatted"
    /\ lines' = format_bom_output_lines(bom_parts)
    /\ table' = IF (IF bom_parts = <<>> THEN TRUE ELSE "error" \in DOMAIN bom_parts[1])
                THEN table
                ELSE table_after_parts(table, decoded_parts(bom_parts))
    /\ text' = report_text(bom_parts, lines')
    /\ UNCHANGED <<alt_code, alt_ret, build_volume, specs, role, enc_args,
                   part_number, decoded, quantity, letter,
                   supported, legacy_letter, rebuilt, bom_parts, detected_size, sort_keys>>

(* the sorted keys and the lines of the report, from the keys of the parts *)
VoronReportSorted(ds, size, keys) ==
    /\ sort_keys' = [k \in 1..Len(keys) |-> keys[sorted_order(Len(keys), keys)[k]]]
    /\ lines' = voron_keyed_lines(bom_parts, ds, size, keys)

(* the report from the decoded parts and the detected build size; every  *)
(* part is decoded, in the detection, for the common fields, for its key  *)
(* and in the loop that prints it                                         *)
VoronReport(ds, size) ==
    /\ detected_size' = size
    /\ table' = table_after_parts(table, ds)
    /\ VoronReportSorted(ds, size, sort_keys_of(bom_parts, ds, size))

(* format_voron_bom_output(parts): the detected build size, the sort     *)
(* keys of the parts in sorted order, the lines and the text returned    *)
FormatVoronBomOutput ==
    /\ pc = "call_with_bom"
    /\ pc' = "voron_formatted"
    /\ IF (IF bom_parts = <<>> THEN TRUE ELSE "error" \in DOMAIN bom_parts[1])
       THEN table' = table /\ detected_size' = None /\ sort_keys' = <<>> /\ lines' = <<>>
       ELSE VoronReport(decoded_parts(bom_parts), detect_build_size(bom_parts))
    /\ text' = report_text(bom_parts, lines')
    /\ UNCHANGED <<alt_code, alt_ret, build_volume, specs, role, enc_args,
                   part_number, decoded, quantity, letter,
                   supported, legacy_letter, rebuilt, bom_parts>>

Next ==
    \/ ParseAlterationCode
    \/ DecodePartNumber
    \/ EncodePartNumber
    \/ GetExtrusionSpecs
    \/ \E i \in 1..Len(specs) : EncodeSpec(i)
    \/ ClassifyGenerated
    \/ FormatDescription
    \/ ClassifyBomPart
    \/ ClassifyLegacy
    \/ EncodeDecoded
    \/ DetectBuildSize
    \/ FormatBomOutput
    \/ FormatVoronBomOutput

Spec == Init /\ [][Next]_vars

---------------------------------------------------------------------------
(* Vocabulary of the properties, stated on the strings themselves *)

CountChar(s, c) == Cardinality({i \in 1..Len(s) : CharAt(s, i) = c})

NoHyphen(s) == CountChar(s, "-") = 0

AllIn(s, chars) == \A i \in 1..Len(s) : CharAt(s, i) \in chars

(* position of the k-th "-" of s; 0 for k = 0 and Len(s) + 1 past the last *)
HyphenAt(s, k) ==
    IF k = 0 THEN 0
    ELSE IF k > CountChar(s, "-") THEN Len(s) + 1
    ELSE CHOOSE p \in 1..Len(s) :
            /\ CharAt(s, p) = "-"
            /\ Cardinality({i \in 1..p : CharAt(s, i) = "-"}) = k

(* the k-th hyphen-separated segment of s *)
SegmentAt(s, k) == SubSeq(s, HyphenAt(s, k - 1) + 1, HyphenAt(s, k) - 1)

(* tok is exactly one or more uppercase letters followed by one or more digits *)
IsLettersDigits(tok) ==
    \E k \in 1..(Len(tok) - 1) :
        AllIn(SubSeq(tok, 1, k), UpperLetters) /\ AllIn(SliceFrom(tok, k), Digits)

LetterPart(tok) == SubSeq(tok, 1, Cardinality({i \in 1..Len(tok) : CharAt(tok, i) \in UpperLetters}))

DigitPart(tok) == SliceFrom(tok, Cardinality({i \in 1..Len(tok) : CharAt(tok, i) \in UpperLetters}))

NormalFields == {"part_number", "series", "size", "size_raw", "length", "length_raw",
                 "alterations", "alteration_descriptions"}

IsError(d) == "error" \in DOMAIN d

Roles == <<"A", "B", "C", "D", "E", "F", "G", "H">>

---------------------------------------------------------------------------
(* Properties *)

(* C1: for every supported build volume and every role A..H, the part    *)
(* decoded from the part number encoded from the generated spec of that  *)
(* role, classified with the spec's quantity and the same build volume,  *)
(* is given the role's letter.                                           *)
C1_ClassifyInvertsGenerate ==
    (/\ pc = "classified" /\ role # 0
     /\ \E i \in 1..Len(get_supported_build_volumes) :
            build_volume = get_supported_build_volumes[i])
        => letter = Some(Roles[role])

(* C2 as stated: decoding the encoded part number gives back the series, *)
(* the size, the decimal string of the length and the alteration codes,  *)
(* for every series, size, integer length and alteration sequence.       *)
C2_RoundTripForEveryInput ==
    (pc = "decoded" /\ enc_args # None) =>
        /\ ~IsError(decoded)
        /\ decoded.series = enc_args.series
        /\ decoded.size_raw = enc_args.size
        /\ decoded.length_raw = PyStr(enc_args.length)
        /\ decoded.alterations = enc_args.alterations

HyphenFree(args) ==
    /\ NoHyphen(args.series)
    /\ NoHyphen(args.size)
    /\ args.length >= 0
    /\ \A i \in 1..Len(args.alterations) : NoHyphen(args.alterations[i])

(* C2 amended: the round trip holds when the series, the size and every  *)
(* alteration code contain no "-" and the length is not negative.        *)
C2_RoundTripWithoutHyphens ==
    (pc = "decoded" /\ enc_args # None /\ HyphenFree(enc_args)) =>
        /\ ~IsError(decoded)
        /\ decoded.series = enc_args.series
        /\ decoded.size_raw = enc_args.size
        /\ decoded.length_raw = PyStr(enc_args.length)
        /\ decoded.alterations = enc_args.alterations

C2_Witness ==
    /\ pc = "decoded" /\ enc_args # None /\ role = 0
    /\ HyphenFree(enc_args)
    /\ enc_args.series = "" /\ enc_args.length = 7
    /\ enc_args.alterations = <<"AV360", "">>
    /\ decoded.alterations = <<"AV360", "">>
    /\ decoded.length_raw = "7"

(* C3: decode_misumi_name returns an error result exactly when the part  *)
(* number has fewer than 3 hyphen-separated segments, that is fewer than *)
(* 2 hyphens; every other input, empty segments included, is decoded.    *)
C3_ErrorIffFewerThanThreeSegments ==
    pc = "decoded" => (IsError(decoded) <=> CountChar(part_number, "-") < 2)

C3_Witness ==
    /\ pc = "decoded"
    /\ part_number = "--"
    /\ ~IsError(decoded)
    /\ decoded.series = "" /\ decoded.length_raw = ""

(* C4: a decode result has either the error field alone or the eight     *)
(* normal fields alone; a normal result has one description per          *)
(* alteration code, entry i being the description of code i, followed by *)
(* its value in parentheses when it has one.                             *)
C4_ResultShape ==
    pc = "decoded" =>
        /\ DOMAIN decoded \in {{"error"}, NormalFields}
        /\ ~IsError(decoded) =>
            /\ Len(decoded.alteration_descriptions) = Len(decoded.alterations)
            /\ \A i \in 1..Len(decoded.alterations) :
                 LET r == parse_alteration_code(decoded.alterations[i])
                 IN  decoded.alteration_descriptions[i] =
                        IF r[2] = None THEN r[1] ELSE r[1] \o " (" \o r[2][1] \o ")"

C4_Witness ==
    /\ pc = "decoded"
    /\ DOMAIN decoded = NormalFields
    /\ decoded.alterations = <<"TPW", "AV360">>
    /\ decoded.alteration_descriptions =
         << "End Tapping (Center Hole, Both Sides, Heli-Coil Insert)",
            "Wrench Hole in Specified Position (Vertical, A position) (360mm from left end)" >>

(* C5: for a part number of at least 3 segments, series, size_raw and    *)
(* length_raw are its first, second and third segment and alterations    *)
(* are its remaining segments in order, none dropped or merged.          *)
C5_FieldsAreTheSegments ==
    (pc = "decoded" /\ CountChar(part_number, "-") >= 2) =>
        /\ decoded.series = SegmentAt(part_number, 1)
        /\ decoded.size_raw = SegmentAt(part_number, 2)
        /\ decoded.length_raw = SegmentAt(part_number, 3)
        /\ Len(decoded.alterations) = CountChar(part_number, "-") - 2
        /\ \A i \in 1..Len(decoded.alterations) :
             decoded.alterations[i] = SegmentAt(part_number, i + 3)

C5_Witness ==
    /\ pc = "decoded"
    /\ part_number = "HFSB5-2020-500-AV360"
    /\ decoded.series = "HFSB5" /\ decoded.size_raw = "2020"
    /\ decoded.length_raw = "500" /\ decoded.alterations = <<"AV360">>

(* C6: every code of the table is resolved to its table description      *)
(* without a value, the codes that end in digits (X5, Z12, ..) included. *)
C6_TableCodesMatchExactly ==
    (pc = "token" /\ alt_code \in DOMAIN ALTERATION_CODES)
        => alt_ret = <<ALTERATION_CODES[alt_code], None>>

C6_Witness ==
    /\ pc = "token"
    /\ alt_code = "Z12"
    /\ alt_ret = <<"Counterbore in Specified Position (Z12, d=13mm)", None>>

(* the position-letter codes: AH..EH, AV..EV, AP..EP, XA..XE, YA..YE *)
PositionLetterCodes ==
    {l \o o : l \in {"A", "B", "C", "D", "E"}, o \in {"H", "V", "P"}}
        \cup {a \o l : a \in {"X", "Y"}, l \in {"A", "B", "C", "D", "E"}}

(* C7: a position-letter code followed by a non-empty digit string D is  *)
(* resolved to the description of the code and "Dmm from left end", D    *)
(* verbatim.                                                             *)
C7_PositionCodeSuffix ==
    \A b \in PositionLetterCodes :
        (/\ pc = "token"
         /\ Len(alt_code) > Len(b) /\ StartsWith(alt_code, b)
         /\ AllIn(SliceFrom(alt_code, Len(b)), Digits))
        => alt_ret = <<ALTERATION_CODES[b],
                       Some(SliceFrom(alt_code, Len(b)) \o "mm from left end")>>

C7_Witness ==
    /\ pc = "token"
    /\ alt_code = "YE03"
    /\ alt_ret = <<"Counterbore (Right to Left, Horizontal, E position)",
                   Some("03mm from left end")>>

(* the value C8 gives to the digits d after the base code b *)
CategoryValue(b, d) ==
    IF b \in {"JLP", "KLP"} THEN "Hole pitch: " \o d \o "mm"
    ELSE IF b = "ZZZ" THEN "Serial: " \o d
    ELSE IF b = "LL" THEN "Unit: " \o d
    ELSE d

(* C8: an all-letter table code that is no position-letter code,         *)
(* followed by a non-empty digit string D, is resolved to its table      *)
(* description and "Hole pitch: Dmm" for JLP and KLP, "Serial: D" for    *)
(* ZZZ, "Unit: D" for LL and D itself for every other code.              *)
C8_CategoryValue ==
    \A b \in LetterCodes \ PositionLetterCodes :
        (/\ pc = "token"
         /\ Len(alt_code) > Len(b) /\ StartsWith(alt_code, b)
         /\ AllIn(SliceFrom(alt_code, Len(b)), Digits))
        => alt_ret = <<ALTERATION_CODES[b],
                       Some(CategoryValue(b, SliceFrom(alt_code, Len(b))))>>

C8_Witness ==
    /\ pc = "token"
    /\ alt_code = "TPW06"
    /\ alt_ret = <<"End Tapping (Center Hole, Both Sides, Heli-Coil Insert)", Some("06")>>

(* C9: a token of uppercase letters followed by digits that is no table  *)
(* code and whose letters are no table code is resolved to "Unknown      *)
(* alteration code: " with the letters only, and the digits as value.    *)
C9_UnknownBaseKeepsDigits ==
    (/\ pc = "token"
     /\ IsLettersDigits(alt_code)
     /\ alt_code \notin DOMAIN ALTERATION_CODES
     /\ LetterPart(alt_code) \notin DOMAIN ALTERATION_CODES)
        => alt_ret = <<"Unknown alteration code: " \o LetterPart(alt_code),
                       Some(DigitPart(alt_code))>>

C9_Witness ==
    /\ pc = "token"
    /\ alt_code = "Z60"
    /\ alt_ret = <<"Unknown alteration code: Z", Some("60")>>

(* C10: a string that is neither a table code nor uppercase letters      *)
(* followed by digits is resolved to "Unknown alteration code: " with    *)
(* the whole string, and no value.                                       *)
C10_UnknownTokenNamedWhole ==
    (/\ pc = "token"
     /\ alt_code \notin DOMAIN ALTERATION_CODES
     /\ ~IsLettersDigits(alt_code))
        => alt_ret = <<"Unknown alteration code: " \o alt_code, None>>

(* C11: the formatted size is decided by the length of the size segment  *)
(* only: 4 characters give "Dmm × Dmm" with D the first two characters,  *)
(* 6 characters give the three 2-character groups joined with "mm × ",   *)
(* any other length (the empty segment included) gives the segment       *)
(* followed by " (custom size)"; no content is rejected.                 *)
C11_SizeByLengthOnly ==
    (pc = "decoded" /\ CountChar(part_number, "-") >= 2) =>
        LET seg == SegmentAt(part_number, 2)
        IN  /\ ~IsError(decoded)
            /\ decoded.size =
                 CASE Len(seg) = 4 ->
                        SubSeq(seg, 1, 2) \o "mm × " \o SubSeq(seg, 1, 2) \o "mm"
                   [] Len(seg) = 6 ->
                        SubSeq(seg, 1, 2) \o "mm × " \o SubSeq(seg, 3, 4)
                            \o "mm × " \o SubSeq(seg, 5, 6) \o "mm"
                   [] OTHER -> seg \o " (custom size)"

C11_Witness ==
    /\ pc = "decoded"
    /\ part_number = "HFSB5-2x44-500"
    /\ decoded.size_raw = "2x44"
    /\ decoded.size = "2xmm × 2xmm"

(* the decimal numerals: digits only, no leading zero except "0" itself *)
IsDecimalNumeral(s) ==
    /\ Len(s) >= 1
    /\ AllIn(s, Digits)
    /\ (Len(s) > 1 => CharAt(s, 1) # "0")

(* C12 as stated: a length segment that parses as an integer is          *)
(* formatted as that segment with "mm" appended, any other segment is    *)
(* returned unchanged, and length_raw is the segment in both cases.      *)
C12_LengthIsSegmentPlusUnit ==
    (pc = "decoded" /\ CountChar(part_number, "-") >= 2) =>
        LET seg == SegmentAt(part_number, 3)
        IN  /\ ~IsError(decoded)
            /\ decoded.length_raw = seg
            /\ decoded.length = IF IsInt(seg) THEN seg \o "mm" ELSE seg

(* C12: a length segment that parses as an integer is formatted as the   *)
(* decimal string of that integer with "mm" appended, which is the       *)
(* segment with "mm" appended when the segment is a decimal numeral; a   *)
(* segment that does not parse (the empty one included) is returned      *)
(* unchanged; length_raw is the segment in both cases.                   *)
C12_LengthIsIntegerPlusUnit ==
    (pc = "decoded" /\ CountChar(part_number, "-") >= 2) =>
        LET seg == SegmentAt(part_number, 3)
        IN  /\ ~IsError(decoded)
            /\ decoded.length_raw = seg
            /\ IsDecimalNumeral(seg) => decoded.length = seg \o "mm"
            /\ IsInt(seg) => decoded.length = PyStr(PyInt(seg)) \o "mm"
            /\ ~IsInt(seg) => decoded.length = seg

C12_Witness ==
    /\ pc = "decoded"
    /\ part_number = "HFSB5-2020-+05"
    /\ decoded.length_raw = "+05"
    /\ decoded.length = "5mm"

(* the bullet text of one alteration token: its description, followed by *)
(* the qualifier in parentheses when it has one                          *)
BulletText(tok) ==
    LET r == parse_alteration_code(tok)
    IN  IF r[2] = None THEN r[1] ELSE r[1] \o " (" \o r[2][1] \o ")"

(* the lines of the alteration block for a token sequence, as texts; a   *)
(* bullet line is four spaces, the bullet U+2022, a space, the bullet text *)
AlterationLines(toks) ==
    IF toks = <<>> THEN <<Codes("  Alterations: None")>>
    ELSE <<Codes("  Alterations:")>>
         \o [i \in 1..Len(toks) |->
                 Codes("    ") \o Bullet \o Codes(" " \o BulletText(toks[i]))]

(* C13: the text of a non-error decoded part is the header line with the *)
(* original part number, the series, size and length lines, then the one *)
(* line "  Alterations: None" exactly when there is no alteration token, *)
(* and otherwise "  Alterations:" followed by one bullet per token in    *)
(* token order, each the description with " (qualifier)" when present.   *)
C13_FormatLayout ==
    (pc = "formatted" /\ ~IsError(decoded)) =>
        text = JoinText(<< Codes("MISUMI Extrusion: " \o part_number),
                           Codes("  Series: " \o decoded.series),
                           Codes("  Size: " \o decoded.size),
                           Codes("  Length: " \o decoded.length) >>
                        \o AlterationLines(decoded.alterations), Codes("\n"))

C13_Witness ==
    /\ pc = "formatted"
    /\ part_number = "HFSB5-2020-500-TPW-AV360"
    /\ text = Codes("MISUMI Extrusion: HFSB5-2020-500-TPW-AV360\n"
                     \o "  Series: HFSB5\n"
                     \o "  Size: 20mm × 20mm\n"
                     \o "  Length: 500mm\n"
                     \o "  Alterations:\n"
                     \o "    ")
              \o <<8226>>
              \o Codes(" End Tapping (Center Hole, Both Sides, Heli-Coil Insert)\n"
                        \o "    ")
              \o <<8226>>
              \o Codes(" Wrench Hole in Specified Position (Vertical, A position)"
                        \o " (360mm from left end)")

(* the alteration tokens of the table of roles, by characteristic dimension *)
MidpointToken == [x \in {250, 300, 350} |->
                    CASE x = 250 -> "AV185" [] x = 300 -> "AV210" [] x = 350 -> "AV235"]

(* C14: for X in {250, 300, 350} the generated list is exactly the eight *)
(* specs A..H in this order with A (X+120, 9, [TPW]), B (500, 4, [LCP,   *)
(* RCP, AV360]), C (X+120, 1, [AV<floor((X+120)/2)>, TPW]), D (X-10, 1,  *)
(* []), E (X+80, 1, []), F (X+120, 1, [AH235, TPW]), G (X-18, 1,         *)
(* [AH235]), H (330, 1, []); quantities are at least 1, lengths positive *)
C14_GenerateTable ==
    (pc = "specs" /\ build_volume.x \in {250, 300, 350}) =>
        LET X == build_volume.x
            row(i) == <<specs[i].letter, specs[i].length, specs[i].quantity,
                        specs[i].alterations>>
        IN  /\ Len(specs) = 8
            /\ row(1) = <<"A", X + 120, 9, <<"TPW">> >>
            /\ row(2) = <<"B", 500, 4, <<"LCP", "RCP", "AV360">> >>
            /\ row(3) = <<"C", X + 120, 1, <<MidpointToken[X], "TPW">> >>
            /\ row(4) = <<"D", X - 10, 1, <<>> >>
            /\ row(5) = <<"E", X + 80, 1, <<>> >>
            /\ row(6) = <<"F", X + 120, 1, <<"AH235", "TPW">> >>
            /\ row(7) = <<"G", X - 18, 1, <<"AH235">> >>
            /\ row(8) = <<"H", 330, 1, <<>> >>
            /\ \A i \in 1..8 : specs[i].quantity >= 1 /\ specs[i].length > 0

C14_Witness ==
    /\ pc = "specs"
    /\ build_volume.x = 350
    /\ specs[1].letter = "A" /\ specs[1].length = 470 /\ specs[1].quantity = 9
    /\ specs[3].alterations = <<"AV235", "TPW">>

(* C20: the generated list depends on the build volume through x only:  *)
(* every volume with the same x, whatever its y, z and name, gives the   *)
(* same list; and for every volume B is 500 long and H is 330 long.      *)
C20_GenerateReadsOnlyX ==
    pc = "specs" =>
        /\ \A other \in VolumeInputs :
               other.x = build_volume.x => get_extrusion_specs(other) = specs
        /\ specs = get_extrusion_specs(BuildVolume(build_volume.x, 0, 0, Some("any")))
        /\ specs[2].letter = "B" /\ specs[2].length = 500
        /\ specs[8].letter = "H" /\ specs[8].length = 330

C20_Witness ==
    /\ pc = "specs"
    /\ build_volume = BuildVolume(250, 350, 200, Some("Trident"))
    /\ specs[4].letter = "D" /\ specs[4].length = 240
    /\ specs[2].length = 500 /\ specs[8].length = 330

(* The rules of the roles, stated on a token sequence, an integer        *)
(* length, a quantity and the characteristic dimension X of the build    *)
(* volume (0 when there is no build volume or it has no known size).     *)
Has(toks, t) == \E i \in 1..Len(toks) : toks[i] = t

(* some token starting with AV or AH has an integer suffix within 5 of floor(len / 2) *)
NearMidpoint(toks, len) ==
    \E i \in 1..Len(toks) :
        /\ Len(toks[i]) >= 2
        /\ SubSeq(toks[i], 1, 2) \in {"AV", "AH"}
        /\ IsInt(SubSeq(toks[i], 3, Len(toks[i])))
        /\ PyInt(SubSeq(toks[i], 3, Len(toks[i]))) \in ((len \div 2) - 5)..((len \div 2) + 5)

RuleOrder == <<"B", "C", "F", "A", "D", "E", "G", "H">>

RuleHolds(r, toks, len, q, X) ==
    CASE r = "B" -> len = 500 /\ Has(toks, "LCP") /\ Has(toks, "RCP") /\ Has(toks, "AV360")
      [] r = "C" -> /\ Has(toks, "TPW") /\ q = 1 /\ X # 0 /\ len = X + 120
                    /\ NearMidpoint(toks, len)
      [] r = "F" -> /\ ~Has(toks, "TPW") /\ q = 1 /\ X # 0 /\ len = X + 120
                    /\ Has(toks, "AH185") \/ Has(toks, "AH235")
      [] r = "A" -> /\ Has(toks, "TPW") /\ X # 0 /\ len = X + 120
                    /\ ~Has(toks, "AH235") /\ ~Has(toks, "AV235") /\ ~Has(toks, "AH185")
      [] r = "D" -> toks = <<>> /\ q = 1 /\ X # 0 /\ len = X - 10
      [] r = "E" -> toks = <<>> /\ q = 1 /\ X # 0 /\ len = X + 80
      [] r = "G" -> Has(toks, "LTP") /\ q = 1 /\ X # 0 /\ len = X - 18
      [] r = "H" -> Has(toks, "LTP") /\ q = 1 /\ len = 330

(* the first role of RuleOrder whose rule holds, None when none does *)
FirstRule(toks, len, q, X) ==
    LET holding == {k \in 1..Len(RuleOrder) : RuleHolds(RuleOrder[k], toks, len, q, X)}
    IN  IF holding = {} THEN None
        ELSE Some(RuleOrder[CHOOSE k \in holding : \A j \in holding : k <= j])

(* the characteristic dimension the classifier was given, 0 when it has none *)
GivenX == IF build_volume # None /\ build_volume.x \in {250, 300, 350}
          THEN build_volume.x ELSE 0

(* a part with an integer length has been classified *)
ClassifiedPart ==
    /\ pc = "classified"
    /\ ~IsError(decoded)
    /\ IsInt(decoded.length_raw)

(* C15: for a non-error decoded part with an integer length, every       *)
(* quantity and every supported build volume, the letter is the first    *)
(* role in the order B, C, F, A, D, E, G, H whose rule holds, and        *)
(* unknown when no rule holds.                                           *)
C15_ClassifyPrecedence ==
    (ClassifiedPart /\ GivenX # 0) =>
        letter = FirstRule(decoded.alterations, PyInt(decoded.length_raw), quantity, GivenX)

(* both the C rule and the A rule hold; C comes first *)
C15_Witness ==
    /\ pc = "classified" /\ role = 0
    /\ part_number = "HFSB5-2020-370-TPW-AV190"
    /\ quantity = 1 /\ GivenX = 250
    /\ RuleHolds("C", decoded.alterations, 370, 1, 250)
    /\ RuleHolds("A", decoded.alterations, 370, 1, 250)
    /\ letter = Some("C")

(* C16: without a build volume the letter is B, H or unknown, never one  *)
(* of the size-dependent roles A, C, D, E, F, G.                         *)
C16_NoVolumeNoSizedRole ==
    (pc = "classified" /\ build_volume = None) =>
        letter \in {None, Some("B"), Some("H")}

C16_Witness ==
    /\ pc = "classified"
    /\ build_volume = None
    /\ part_number = "HFSB5-2020-330-LTP" /\ quantity = 1
    /\ letter = Some("H")

(* some AV/AH token has a suffix that is no integer *)
HasNonNumericPosition(toks) ==
    \E i \in 1..Len(toks) :
        /\ Len(toks[i]) >= 2
        /\ SubSeq(toks[i], 1, 2) \in {"AV", "AH"}
        /\ ~IsInt(SubSeq(toks[i], 3, Len(toks[i])))

(* C17: classification always ends in a role letter or unknown; it is    *)
(* unknown for every error result, for every length_raw that is no       *)
(* integer, and whenever an AV/AH token has a non-numeric suffix and no  *)
(* rule holds otherwise.                                                 *)
C17_ClassifyTotal ==
    pc = "classified" =>
        /\ letter \in {None} \cup {Some(RuleOrder[k]) : k \in 1..Len(RuleOrder)}
        /\ IsError(decoded) => letter = None
        /\ (~IsError(decoded) /\ ~IsInt(decoded.length_raw)) => letter = None
        /\ (/\ ClassifiedPart
            /\ HasNonNumericPosition(decoded.alterations)
            /\ FirstRule(decoded.alterations, PyInt(decoded.length_raw), quantity, GivenX) = None)
               => letter = None

(* a TPW part at the length of C whose only candidate token has no number *)
C17_Witness ==
    /\ pc = "classified"
    /\ part_number = "HFSB5-2020-370-TPW-AVx-AV235"
    /\ quantity = 1 /\ GivenX = 250
    /\ HasNonNumericPosition(decoded.alterations)
    /\ letter = None

(* C18: for X in {250, 300, 350} a part of length 330 with alterations   *)
(* [LTP] and quantity 1 is H; the G rule and the H rule never both hold  *)
(* for such a volume, G being returned only at length X - 18, not 330.   *)
C18_HVersusG ==
    (ClassifiedPart /\ GivenX # 0) =>
        LET len == PyInt(decoded.length_raw)
        IN  /\ (len = 330 /\ decoded.alterations = <<"LTP">> /\ quantity = 1)
                  => letter = Some("H")
            /\ ~(/\ RuleHolds("G", decoded.alterations, len, quantity, GivenX)
                 /\ RuleHolds("H", decoded.alterations, len, quantity, GivenX))
            /\ letter = Some("G") => (len = GivenX - 18 /\ len # 330)

C18_Witness ==
    /\ pc = "classified"
    /\ part_number = "HFSB5-2020-330-LTP"
    /\ quantity = 1 /\ GivenX = 250
    /\ letter = Some("H")

(* C19: for a part with TPW, quantity 1 and length X + 120 under a       *)
(* supported volume X, the letter is C exactly when some AV/AH token has *)
(* an integer suffix within 5, inclusive, of floor(length / 2).          *)
C19_MidpointTolerance ==
    (/\ ClassifiedPart /\ GivenX # 0
     /\ PyInt(decoded.length_raw) = GivenX + 120
     /\ Has(decoded.alterations, "TPW") /\ quantity = 1)
        => (letter = Some("C") <=> NearMidpoint(decoded.alterations, GivenX + 120))

(* a suffix exactly 5 above the midpoint 185 is accepted *)
C19_Witness ==
    /\ pc = "classified"
    /\ part_number = "HFSB5-2020-370-AV190-TPW"
    /\ quantity = 1 /\ GivenX = 250
    /\ letter = Some("C")

(* a suffix 6 above the midpoint is rejected and the part falls through to A *)
SixAwayRejected ==
    /\ pc = "classified"
    /\ part_number = "HFSB5-2020-370-AV191-TPW"
    /\ quantity = 1 /\ GivenX = 250
    /\ letter = Some("A")

LowerLetters == {"a", "b", "c", "d", "e", "f", "g", "h", "i", "j", "k", "l", "m",
                 "n", "o", "p", "q", "r", "s", "t", "u", "v", "w", "x", "y", "z"}

(* the table codes that end in a digit: X5, X8, Z5, Z6, Z8, Z12 and the *)
(* two chamfer codes L_T45, R_T45                                       *)
DigitEndingCodes == {c \in DOMAIN ALTERATION_CODES : CharAt(c, Len(c)) \in Digits}

(* the qualifiers that carry the digit string d *)
QualifiersOf(d) ==
    {d, d \o "mm from left end", "Hole pitch: " \o d \o "mm", "Serial: " \o d, "Unit: " \o d}

(* C30: a letters+digits token that is no table code is split at the end *)
(* of its leading run of uppercase letters: the description is that of   *)
(* the letter run and the qualifier carries all the digits; so a table   *)
(* code ending in a digit followed by further digits is resolved to the  *)
(* unknown letter run with all digits as qualifier, and a token whose    *)
(* letters are not all uppercase is not decomposed at all.               *)
C30_SplitAfterLetterRun ==
    pc = "token" =>
        /\ {"X5", "X8", "Z5", "Z6", "Z8", "Z12"} \subseteq DigitEndingCodes
        /\ (alt_code \notin DOMAIN ALTERATION_CODES /\ IsLettersDigits(alt_code)) =>
              /\ alt_ret[1] = IF LetterPart(alt_code) \in DOMAIN ALTERATION_CODES
                              THEN ALTERATION_CODES[LetterPart(alt_code)]
                              ELSE "Unknown alteration code: " \o LetterPart(alt_code)
              /\ alt_ret[2] # None
              /\ alt_ret[2][1] \in QualifiersOf(DigitPart(alt_code))
        /\ \A t \in DigitEndingCodes :
              (/\ Len(alt_code) > Len(t)
               /\ SubSeq(alt_code, 1, Len(t)) = t
               /\ AllIn(SliceFrom(alt_code, Len(t)), Digits)
               /\ alt_code \notin DOMAIN ALTERATION_CODES) =>
                  alt_ret = IF IsLettersDigits(t)
                            THEN <<"Unknown alteration code: " \o LetterPart(t),
                                   Some(SliceFrom(alt_code, Len(LetterPart(t))))>>
                            ELSE <<"Unknown alteration code: " \o alt_code, None>>
        /\ (\E k \in 1..(Len(alt_code) - 1) :
               /\ AllIn(SubSeq(alt_code, 1, k), UpperLetters \cup LowerLetters)
               /\ ~AllIn(SubSeq(alt_code, 1, k), UpperLetters)
               /\ AllIn(SliceFrom(alt_code, k), Digits)) =>
              alt_ret = <<"Unknown alteration code: " \o alt_code, None>>

C30_Witness ==
    /\ pc = "token"
    /\ alt_code = "Z612"
    /\ alt_ret = <<"Unknown alteration code: Z", Some("612")>>

(* C21: a build volume is supported exactly when its (x, y, z) is one of *)
(* (250,250,250), (300,300,250), (350,350,250), whatever its name; the   *)
(* specs are generated all the same for an unsupported volume: eight     *)
(* specs A..H with the lengths of the same formulas in x.                *)
C21_SupportIsMembershipOnly ==
    pc = "specs" =>
        /\ supported <=> <<build_volume.x, build_volume.y, build_volume.z>>
                            \in {<<250, 250, 250>>, <<300, 300, 250>>, <<350, 350, 250>>}
        /\ Len(specs) = 8
        /\ [i \in 1..8 |-> specs[i].letter] = Roles
        /\ [i \in 1..8 |-> specs[i].length] =
             << build_volume.x + 120, 500, build_volume.x + 120, build_volume.x - 10,
                build_volume.x + 80, build_volume.x + 120, build_volume.x - 18, 330 >>

(* an unsupported volume for which the eight specs were generated *)
C21_Witness ==
    /\ pc = "specs"
    /\ build_volume.x = 250 /\ build_volume.y = 350
    /\ ~supported
    /\ Len(specs) = 8 /\ specs[4].length = 240

(* a supported volume under another name *)
SupportedUnderAnotherName ==
    /\ pc = "specs"
    /\ build_volume = BuildVolume(350, 350, 250, Some("large"))
    /\ supported

(* the part that the legacy classifier cannot tell apart: 470 long with  *)
(* TPW and without AH235                                                 *)
AmbiguousPart ==
    /\ ~IsError(decoded)
    /\ IsInt(decoded.length_raw)
    /\ PyInt(decoded.length_raw) = 470
    /\ Has(decoded.alterations, "TPW")
    /\ ~Has(decoded.alterations, "AH235")

(* C22: the legacy classifier returns "C/H" exactly for a part 470 long  *)
(* with TPW and without AH235 when the build size is none of "250mm",    *)
(* "300mm", "350mm"; for that part it returns C at "300mm" and H at      *)
(* "250mm" and "350mm"; the build-volume-aware classifier never returns  *)
(* "C/H".                                                                *)
C22_LegacyAmbiguity ==
    /\ pc \in {"classified", "legacy_classified"} => letter # Some("C/H")
    /\ pc = "legacy_classified" =>
        LET size == BuildSizeOf(build_volume)
            known == size \in {Some("250mm"), Some("300mm"), Some("350mm")}
        IN  /\ legacy_letter = Some("C/H") <=> (AmbiguousPart /\ ~known)
            /\ (AmbiguousPart /\ size = Some("300mm")) => legacy_letter = Some("C")
            /\ (AmbiguousPart /\ size \in {Some("250mm"), Some("350mm")})
                  => legacy_letter = Some("H")

C22_Witness ==
    /\ pc = "legacy_classified"
    /\ part_number = "HFSB5-2020-470-TPW"
    /\ build_volume = None
    /\ legacy_letter = Some("C/H")
    /\ letter = None

(* C23: for every decoded part, quantity and supported build size, the   *)
(* build-volume-aware classifier returns the designation the legacy      *)
(* classifier returns for the matching build-size string.                *)
C23_LegacyEquivalence ==
    (pc = "legacy_classified" /\ GivenX # 0) => letter = legacy_letter

(* C27: the classifier reads only the x of the build volume: volumes of  *)
(* equal x give the same letter for every part and quantity, so a volume *)
(* like (250, 1, 1) that is not supported is classified as a 250 build;  *)
(* a volume whose x is not 250, 300 or 350 is treated like an absent one *)
(* (only B, H or unknown).                                               *)
C27_ClassifyReadsOnlyX ==
    (pc = "classified" /\ build_volume # None) =>
        /\ \A other \in ClassifyVolumes \ {None} :
               other.x = build_volume.x =>
                   get_extrusion_letter(decoded, quantity, Some(other)) = letter
        /\ letter = IF ClassifiedPart
                    THEN FirstRule(decoded.alterations, PyInt(decoded.length_raw),
                                   quantity, GivenX)
                    ELSE None
        /\ build_volume.x \notin {250, 300, 350} =>
               /\ letter = get_extrusion_letter(decoded, quantity, None)
               /\ letter \in {None, Some("B"), Some("H")}

C27_Witness ==
    /\ pc = "classified"
    /\ build_volume = BuildVolume(250, 1, 1, None)
    /\ ~supports_build_volume(build_volume)
    /\ part_number = "HFSB5-2020-240" /\ quantity = 1
    /\ letter = Some("D")

(* a volume of unknown x gives H where a known one would not matter, and no sized role *)
UnknownXLikeAbsent ==
    /\ pc = "classified"
    /\ build_volume # None /\ build_volume.x = 200
    /\ part_number = "HFSB5-2020-330-LTP" /\ quantity = 1
    /\ letter = Some("H")

(* every value a call returned is still the value the same call returns *)
(* from the arguments as they are now                                    *)
ResultsReproducible ==
    /\ pc = "token" => alt_ret = parse_alteration_code(alt_code)
    /\ pc \in {"decoded", "formatted", "classified", "reencoded", "legacy_classified"} =>
          decoded = decode_misumi_name(part_number)
    /\ pc = "formatted" => text = format_description(decode_misumi_name(part_number))
    /\ pc = "reencoded" =>
          rebuilt = encode_part_number_raw(decoded.series, decoded.size_raw,
                                           decoded.length_raw, decoded.alterations)
    /\ role # 0 =>
          /\ specs = get_extrusion_specs(build_volume)
          /\ enc_args.alterations = get_extrusion_specs(build_volume)[role].alterations
          /\ part_number = encode_part_number("HFSB5", "2020", specs[role].length,
                                              specs[role].alterations)
    /\ (pc = "classified" /\ role # 0) =>
          letter = get_extrusion_letter(decode_misumi_name(part_number),
                                        get_extrusion_specs(build_volume)[role].quantity,
                                        Some(build_volume))
    /\ (pc \in {"classified", "legacy_classified"} /\ role = 0) =>
          letter = get_extrusion_letter(decode_misumi_name(part_number), quantity,
                                        IF build_volume = None THEN None
                                        ELSE Some(build_volume))

(* a call leaves the table and every argument it was given as they were: *)
(* the token, the part number, the arguments of Encode, the decoded part *)
(* with its alterations, the build volume, the generated specs with      *)
(* their alteration lists, the quantity and the parts of the BOM         *)
ArgumentsKept ==
    /\ table' = table
    /\ alt_code' = alt_code
    /\ build_volume' = build_volume
    /\ bom_parts' = bom_parts
    /\ pc \in {"call_decode_misumi_name", "encoded", "decoded", "classified",
               "call_get_extrusion_letter"} => part_number' = part_number
    /\ pc \in {"call_encode_part_number", "encoded", "decoded"} => enc_args' = enc_args
    /\ pc \in {"decoded", "classified"} => decoded' = decoded
    /\ pc \in {"specs", "encoded", "decoded"} => specs' = specs
    /\ pc \in {"call_get_extrusion_letter", "classified"} => quantity' = quantity

(* C24: after any sequence of calls of parse_alteration_code,            *)
(* decode_misumi_name, format_description, encode_part_number,           *)
(* get_extrusion_specs and get_extrusion_letter the table ALTERATION_CODES *)
(* holds what it held at import, no call has changed an argument (the    *)
(* classifier leaves the decoded part and its alterations as they were,  *)
(* the generated alteration lists stay those of a first call), and every *)
(* result equals the result of the same call made first.                 *)
C24_Purity ==
    /\ [](table = ALTERATION_CODES)
    /\ [][ArgumentsKept]_vars
    /\ []ResultsReproducible

(* the chain Generate, Encode, Parse, Classify on a part whose first     *)
(* alteration token is no code of the table: Parse split it and looked   *)
(* its base up, and the table, the specs and the decoded part are intact *)
C24_Witness ==
    /\ pc = "classified"
    /\ role # 0
    /\ build_volume = get_supported_build_volumes[2]
    /\ specs = get_extrusion_specs(build_volume)
    /\ part_number = "HFSB5-2020-282-AH235"
    /\ decoded.alterations = <<"AH235">>
    /\ ~("AH235" \in DOMAIN ALTERATION_CODES)
    /\ decoded.alteration_descriptions[1] = parse_alteration_code("AH235")[1]
                                              \o " (" \o parse_alteration_code("AH235")[2][1] \o ")"
    /\ specs[role].alterations = <<"AH235">>
    /\ table = ALTERATION_CODES

(* C25: for a part number of at least 3 segments, joining the series,    *)
(* size_raw, length_raw and alterations of its decoded part with "-"     *)
(* gives the part number back exactly, so decoding the reconstruction    *)
(* gives the same result; the part_number field is the part number       *)
(* verbatim.                                                             *)
C25_DecodeThenEncode ==
    /\ (pc = "decoded" /\ CountChar(part_number, "-") >= 2)
          => decoded.part_number = part_number
    /\ (pc = "reencoded" /\ CountChar(part_number, "-") >= 2) =>
          /\ rebuilt = part_number
          /\ decoded.part_number = part_number
          /\ decode_misumi_name(rebuilt) = decoded

(* a part number with an empty alteration token and a length that is no integer *)
C25_Witness ==
    /\ pc = "reencoded"
    /\ part_number = "HFSB5-2020-abc-"
    /\ decoded.alterations = <<"">>
    /\ rebuilt = "HFSB5-2020-abc-"

---------------------------------------------------------------------------
(* Build-size detection *)

DetectionLengths == {240, 290, 340}

(* the part number has a third segment that reads as one of the detection lengths *)
NamesBuildSize(pn) ==
    /\ CountChar(pn, "-") >= 2
    /\ IsInt(SegmentAt(pn, 3))
    /\ PyInt(SegmentAt(pn, 3)) \in DetectionLengths

(* the two lists hold the same rows, each as many times *)
IsPermutation(a, b) ==
    /\ Len(a) = Len(b)
    /\ \A i \in 1..Len(a) :
          Cardinality({j \in 1..Len(a) : a[j] = a[i]}) = Cardinality({j \in 1..Len(b) : b[j] = a[i]})

(* C28: detect_build_size returns the size of the first part, in list      *)
(* order, whose integer length is 240, 290 or 340, and None when no part   *)
(* has one; among the specs generated for a supported build volume V just  *)
(* one length, that of D (V.x - 10), is a detection length, so the part    *)
(* numbers encoded from them give "<V.x>mm" in whatever order they come.   *)
C28_DetectionAgreesWithGenerate ==
    pc = "detected" =>
        /\ LET hits == {i \in 1..Len(bom_parts) : NamesBuildSize(bom_parts[i].part_number)}
           IN  IF hits = {} THEN detected_size = None
               ELSE LET first == CHOOSE i \in hits : \A j \in hits : i <= j
                    IN  detected_size =
                            Some(PyStr(PyInt(SegmentAt(bom_parts[first].part_number, 3)) + 10) \o "mm")
        /\ \A v \in 1..Len(get_supported_build_volumes) :
              LET V == get_supported_build_volumes[v]
                  generated == get_extrusion_specs(V)
              IN  /\ Cardinality({i \in 1..Len(generated) :
                                    generated[i].length \in DetectionLengths}) = 1
                  /\ \A i \in 1..Len(generated) :
                        generated[i].length \in DetectionLengths
                            => generated[i].letter = "D" /\ generated[i].length = V.x - 10
                  /\ IsPermutation(bom_parts, GeneratedBom(V))
                        => detected_size = Some(PyStr(V.x) \o "mm")

(* the list generated for 300x300x250, last row first *)
C28_Witness ==
    /\ pc = "detected"
    /\ bom_parts = Reverse(GeneratedBom(get_supported_build_volumes[2]))
    /\ bom_parts[5].part_number = "HFSB5-2020-290"
    /\ detected_size = Some("300mm")

---------------------------------------------------------------------------
(* Error results *)

IsPrefix(p, s) == Len(s) >= Len(p) /\ SubSeq(s, 1, Len(p)) = p

(* the message of the result of decoding a part number of fewer than 3 segments *)
TooFewSegmentsMessage(pn) ==
    "Invalid part number format. Expected at least 3 parts separated by hyphens, got: " \o pn

PartNumberLabel == Codes("     Part Number: ")

ErrorLabel == Codes("     Error: ")

(* C26: an error result is recognised before any field is read: Format of  *)
(* a result with an error field is exactly "Error: <message>", Classify of *)
(* such a result is unknown, and both BOM reports print, right after the   *)
(* part number of a part that does not decode, the line "Error: <message>" *)
(* and the blank line that closes the part, with none of its fields; parts *)
(* that decode get no such line.                                           *)
C26_ErrorsCheckedFirst ==
    /\ (pc = "formatted" /\ IsError(decoded)) => text = Codes("Error: " \o decoded.error)
    /\ (pc = "classified" /\ IsError(decoded)) => letter = None
    /\ pc \in {"bom_formatted", "voron_formatted"} =>
          /\ \A k \in 1..Len(lines) :
                IsPrefix(PartNumberLabel, lines[k]) =>
                    LET pn == Str(SliceFrom(lines[k], Len(PartNumberLabel)))
                    IN  /\ k + 1 <= Len(lines)
                        /\ IF CountChar(pn, "-") < 2
                           THEN /\ lines[k + 1] = ErrorLabel \o Codes(TooFewSegmentsMessage(pn))
                                /\ k + 2 <= Len(lines)
                                /\ lines[k + 2] = Codes("")
                           ELSE ~IsPrefix(ErrorLabel, lines[k + 1])
          /\ lines # <<>> =>
                /\ Cardinality({k \in 1..Len(lines) : IsPrefix(PartNumberLabel, lines[k])})
                       = Len(bom_parts)
                /\ Cardinality({k \in 1..Len(lines) : IsPrefix(ErrorLabel, lines[k])})
                       = Cardinality({i \in 1..Len(bom_parts) :
                                        CountChar(bom_parts[i].part_number, "-") < 2})

(* a report on a list whose first part number has two segments *)
C26_Witness ==
    /\ pc = "bom_formatted"
    /\ Len(bom_parts) = 2
    /\ bom_parts[1].part_number = "HFSB5-2020"
    /\ lines[6] = Codes("     Part Number: HFSB5-2020")
    /\ lines[7] = Codes("     Error: Invalid part number format. Expected at least 3 parts "
                        \o "separated by hyphens, got: HFSB5-2020")
    /\ lines[8] = Codes("")

(* Format and Classify each met an error result; so did the Voron report *)
FormatOfError == pc = "formatted" /\ IsError(decoded) /\ IsPrefix(Codes("Error: Invalid"), text)

ClassifyOfError == pc = "classified" /\ IsError(decoded) /\ letter = None

VoronReportOfError ==
    /\ pc = "voron_formatted"
    /\ \E k \in 1..Len(lines) : IsPrefix(ErrorLabel, lines[k])

---------------------------------------------------------------------------
(* The Voron report *)

DesignationLabel == Codes("     Designation: ")

(* the first line of the k-th part of the report *)
QtyLabel(k) == Codes("[" \o PyStr(k) \o "] Qty: ")

BlockStart(k) == CHOOSE j \in 1..Len(lines) : IsPrefix(QtyLabel(k), lines[j])

(* the letter printed for the k-th part: the word after the label of its *)
(* designation line, None when the part has no such line                  *)
PrintedLetter(k) ==
    LET line == lines[BlockStart(k) + 1]
    IN  IF IsPrefix(DesignationLabel, line)
        THEN LET rest == Str(SliceFrom(line, Len(DesignationLabel)))
                 stop == CHOOSE p \in 1..Len(rest) :
                            /\ CharAt(rest, p) = " "
                            /\ \A q \in 1..(p - 1) : CharAt(rest, q) # " "
             IN  Some(SubSeq(rest, 1, stop - 1))
        ELSE None

(* the quantity printed for the k-th part, as the report converts it *)
PrintedQuantity(k) ==
    LET qty == Str(SliceFrom(lines[BlockStart(k)], Len(QtyLabel(k))))
    IN  IF IsInt(qty) THEN PyInt(qty) ELSE 1

(* C29: in the Voron report the registry resolves "trident", so the        *)
(* legacy classifier is never used: no line "Designation: C/H Extrusion"   *)
(* is printed, the letter printed for every part is the one                *)
(* TridentPrinter.get_extrusion_letter gives for its decoded part number,  *)
(* its quantity and the volume of the detected size, and the key the part  *)
(* was sorted by is the rank of that same letter (999 when none is         *)
(* printed).                                                               *)
C29_FallbackUnreachable ==
    pc = "voron_formatted" =>
        /\ get_printer("trident") = Some("trident")
        /\ \A j \in 1..Len(lines) : ~IsPrefix(DesignationLabel \o Codes("C/H"), lines[j])
        /\ lines # <<>> =>
              /\ Len(sort_keys) = Len(bom_parts)
              /\ \A k \in 1..Len(sort_keys) :
                    /\ \E j \in 1..Len(lines) : IsPrefix(QtyLabel(k), lines[j])
                    /\ PrintedLetter(k) =
                           get_extrusion_letter(decode_misumi_name(sort_keys[k][2]),
                                                PrintedQuantity(k), VolumeOfSize(detected_size))
                    /\ sort_keys[k][1] = IF PrintedLetter(k) = None THEN 999
                                         ELSE letter_order[PrintedLetter(k)[1]]
                    /\ lines[BlockStart(k) + (IF PrintedLetter(k) = None THEN 1 ELSE 2)]
                           = PartNumberLabel \o Codes(sort_keys[k][2])

(* the rows generated for 300x300x250, reversed: the report sorts them   *)
(* back, A first; the legacy classifier would call the first part "C/H"   *)
(* had the size not been detected                                         *)
C29_Witness ==
    /\ pc = "voron_formatted"
    /\ bom_parts = Reverse(GeneratedBom(get_supported_build_volumes[2]))
    /\ bom_parts[8].part_number = "HFSB5-2020-420-TPW"
    /\ sort_keys[1] = <<0, "HFSB5-2020-420-TPW">>
    /\ lines[BlockStart(1)] = Codes("[1] Qty: 9")
    /\ lines[BlockStart(1) + 1] = Codes("     Designation: A Extrusion")
    /\ sort_keys[5] = <<4, "HFSB5-2020-380">>
    /\ PrintedLetter(5) = Some("E")

(* a part the legacy classifier calls "C/H" is printed without being so called *)
AmbiguousPartReported ==
    /\ pc = "voron_formatted"
    /\ lines # <<>>
    /\ Len(bom_parts) = 1
    /\ bom_parts[1].part_number = "HFSB5-2020-470-TPW"
    /\ detected_size = None
    /\ voron_get_extrusion_letter(decode_misumi_name("HFSB5-2020-470-TPW"), 1, None) = Some("C/H")
    /\ \A j \in 1..Len(lines) : ~IsPrefix(DesignationLabel \o Codes("C/H"), lines[j])

=============================================================================
